---- MODULE Spec2Model ----
(***************************************************************************)
(* Ledger and proof-of-work engine of blockchain-storage (package core):   *)
(* block hashing and validity, the concurrent miner, and the Blockchain    *)
(* container with its two lookup indices and its JSON persistence.         *)
(*                                                                         *)
(* Byte strings ([]byte, string) are sequences of atoms.  An atom is a     *)
(* record [k, v, c]: a concrete byte (k = "byte", v = 0..255), or an       *)
(* opaque run of bytes whose text is fixed by v and c: the 32 bytes of a   *)
(* SHA-256 digest of the content c (k = "sha"), their 64 hex digits        *)
(* (k = "hexsha"), their base64 text (k = "b64sha"), the wall-clock part   *)
(* of a printed time (k = "wall") and its monotonic suffix (k = "mono").   *)
(* SHA-256 is taken collision free: a digest is identified by its          *)
(* pre-image.  Only the HashBits leading bits of a digest are given a      *)
(* numeric value; for a difficulty d <= HashBits the comparison            *)
(* h <= maxHash >> d is decided by these bits alone.                       *)
(***************************************************************************)
EXTENDS Integers, Sequences, FiniteSets, TLC

VARIABLES
    heap,                   \* the allocated Block objects; a *Block is an index into heap
    Blocks,                 \* Blockchain.Blocks: sequence of *Block
    BlocksMapByHash,        \* Blockchain.BlocksMapByHash: hex string -> *Block
    BlocksMapByMerkelRoot,  \* Blockchain.BlocksMapByMerkelRoot: hex string -> *Block
    file,                   \* content of the chain file (NoFile before the first write)
    now,                    \* the clock read by time.Now()
    op,                     \* the operation that acted last and its arguments
    ret,                    \* what that operation returned
    saved,                  \* the block values that the last writeToFile serialised
    mine,                   \* the frame of the running Mine call
    wk,                     \* wk[a][i + 1]: worker i of attempt a (goroutine proofOfWorkMiner)
    failure,                \* failure[a]: number of values buffered in attempt a's failure channel
    ctx,                    \* ctx[a]: TRUE once attempt a's context is cancelled
    chunks,                 \* the file chunks a caller holds ([][]byte)
    nodes,                  \* the allocated MerkleNode objects; a *MerkleNode is an index into nodes
    tree,                   \* the MerkleTree built from chunks (NoTree before)
    data,                   \* the chunk handed to validateMerkleProof
    merkleRoot,             \* the root hash handed to validateMerkleProof
    merkleProof,            \* the proof handed to validateMerkleProof
    content,                \* the bytes of the file handed to chunkFile
    reader,                 \* the frame of the running chunkFile call
    rebuilt,                \* content of the file buildFile wrote (NoFile before)
    uploadCmd,              \* the frame of uploadCmd.RunE with the flags workers and retries
    Peers,                  \* network.Peers: the shared list of connected peers
    PeersMutex,             \* network.PeersMutex: the task holding it, 0 when unlocked
    connect,                \* the frame of the running connectToBootstrapPeers call
    task                    \* task[i]: goroutine connectToBootstrapPeer for bootstrapPeers[i]

vars == <<heap, Blocks, BlocksMapByHash, BlocksMapByMerkelRoot, file, now, op, ret,
          saved, mine, wk, failure, ctx, chunks, nodes, tree, data, merkleRoot,
          merkleProof, content, reader, rebuilt, uploadCmd, Peers, PeersMutex,
          connect, task>>

chainVars == <<Blocks, BlocksMapByHash, BlocksMapByMerkelRoot>>
mineVars == <<mine, wk, failure, ctx>>
merkleVars == <<chunks, nodes, tree, data, merkleRoot, merkleProof>>
chunkVars == <<content, reader, rebuilt>>
netVars == <<Peers, PeersMutex, connect, task>>

----------------------------------------------------------------------------
(* Bounds *)

HashBits == 2        \* leading bits of a digest that carry a numeric value (256 in the code)
MaxInt == 3          \* largest nonce a worker may hold (math.MaxInt in the code)
MaxWorkers == 2      \* largest worker count passed to Mine
MaxRetries == 2      \* largest retry budget passed to Mine
MaxHeap == 3         \* largest number of Block objects alive at once
MaxChain == 3        \* largest number of appends to one chain
MaxTime == 3         \* clock reading after which time.Now() no longer advances
MaxChunks == 5       \* largest number of chunks of a file
MaxFile == 5         \* largest number of bytes of a file handed to chunkFile
MaxChunkSize == 8    \* largest chunkSizeMB handed to chunkFile
MaxPeers == 3        \* largest number of bootstrap peers handed to connectToBootstrapPeers

----------------------------------------------------------------------------
(* Byte strings *)

Byte(b) == [k |-> "byte", v |-> b, c |-> <<>>]

NoMono == 0 - 1

RECURSIVE Pow2(_)
Pow2(n) == IF n = 0 THEN 1 ELSE 2 * Pow2(n - 1)

\* maxHash: 1 << 256, minus 1; here over HashBits bits
maxHash == Pow2(HashBits) - 1

\* new(big.Int).Rsh(maxHash, difficulty)
Rsh(x, n) == x \div Pow2(n)

\* the target of a difficulty counted in hex digits, as the comment on Mine
\* words it
TargetHexDigits(difficulty) == Rsh(maxHash, 4 * difficulty)

\* the target of a difficulty: maxHash >> difficulty
Target(difficulty) == Rsh(maxHash, difficulty)

\* strconv.FormatInt(i, 10): the ASCII decimal digits of i
RECURSIVE FormatNat(_)
FormatNat(n) ==
    IF n < 10 THEN <<Byte(48 + n)>>
    ELSE Append(FormatNat(n \div 10), Byte(48 + (n % 10)))

FormatInt(i) == IF i < 0 THEN <<Byte(45)>> \o FormatNat(0 - i) ELSE FormatNat(i)

\* string(rune(n)): the UTF-8 encoding of code point n; U+FFFD for a surrogate
\* or a value above U+10FFFF.  (rune(n) truncates n to 32 bits; every nonce
\* used here already fits.)
RuneString(n) ==
    IF n < 0 \/ n > 1114111 \/ (n >= 55296 /\ n <= 57343)
    THEN <<Byte(239), Byte(191), Byte(189)>>
    ELSE IF n < 128 THEN <<Byte(n)>>
    ELSE IF n < 2048 THEN <<Byte(192 + (n \div 64)), Byte(128 + (n % 64))>>
    ELSE IF n < 65536
    THEN <<Byte(224 + (n \div 4096)), Byte(128 + ((n \div 64) % 64)), Byte(128 + (n % 64))>>
    ELSE <<Byte(240 + (n \div 262144)), Byte(128 + ((n \div 4096) % 64)),
           Byte(128 + ((n \div 64) % 64)), Byte(128 + (n % 64))>>

\* time.Time.String(): the wall-clock text, followed by " m=+..." when the
\* value carries a monotonic clock reading
TimeString(t) ==
    <<[k |-> "wall", v |-> t.wall, c |-> <<>>]>>
    \o (IF t.mono = NoMono THEN <<>> ELSE <<[k |-> "mono", v |-> t.mono, c |-> <<>>]>>)

\* time.Now(): wall clock together with a monotonic reading
TimeNow == [wall |-> now, mono |-> now]

\* the clock after a reading
Tick == IF now < MaxTime THEN now + 1 ELSE now

\* time.Time{}: the zero time, no monotonic reading
ZeroTime == [wall |-> 0, mono |-> NoMono]

\* sha256.Sum256(contents)[:]
Sum256(contents) == <<[k |-> "sha", v |-> 0, c |-> contents]>>

\* The non-linear part of one mixing round of Scatter, tabulated over the
\* range of its argument.
Square == [y \in 0..2100 |-> y * y * 31 + (y \div 8)]

\* The leading HashBits bits of the digest of a content: a fixed function of
\* the whole content that scatters over 0..maxHash (SHA-256 itself is not
\* computed).
RECURSIVE Scatter(_)
Scatter(contents) ==
    IF contents = <<>> THEN 1
    ELSE LET a == contents[Len(contents)]
             x == IF a.k = "sha" THEN 11 + Scatter(a.c)
                  ELSE IF a.k = "wall" THEN 300 + a.v
                  ELSE IF a.k = "mono" THEN 400 + a.v
                  ELSE a.v
         IN  (Square[Scatter(SubSeq(contents, 1, Len(contents) - 1)) + x + 1]
                 + x * 17) % 1009

LeadingBits(contents) == (Scatter(contents) \div 16) % Pow2(HashBits)

\* number of bytes an atom stands for
RECURSIVE ByteLen(_)
ByteLen(bytes) ==
    IF bytes = <<>> THEN 0
    ELSE (IF bytes[1].k = "sha" THEN 32 ELSE 1) + ByteLen(Tail(bytes))

\* new(big.Int).SetBytes(hash), as far as a target over HashBits leading bits
\* can tell: a digest has the value of its leading bits, a string shorter than
\* 32 bytes has none of them set, a longer one exceeds every target.
SetBytes(hash) ==
    IF Len(hash) = 1 /\ hash[1].k = "sha" THEN LeadingBits(hash[1].c)
    ELSE IF ByteLen(hash) < 32 THEN 0
    ELSE maxHash + 1

\* bytes.Equal
BytesEqual(a, b) == a = b

\* hex.EncodeToString
HexDigit(n) == IF n < 10 THEN Byte(48 + n) ELSE Byte(87 + n)

RECURSIVE EncodeToString(_)
EncodeToString(bytes) ==
    IF bytes = <<>> THEN <<>>
    ELSE (IF bytes[1].k = "sha" THEN <<[k |-> "hexsha", v |-> 0, c |-> bytes[1].c]>>
          ELSE <<HexDigit(bytes[1].v \div 16), HexDigit(bytes[1].v % 16)>>)
         \o EncodeToString(Tail(bytes))

----------------------------------------------------------------------------
(* Block *)

\* Block.calculateHash
calculateHash(block) ==
    Sum256(FormatInt(block.Index) \o TimeString(block.Timestamp) \o RuneString(block.Nonce)
           \o block.MerkelRoot \o block.PrevHash)

\* isValid without the comparison of the indices
isValidNoIndex(block, prevBlock, difficulty) ==
    IF ~BytesEqual(block.Hash, calculateHash(block)) THEN FALSE
    ELSE IF ~BytesEqual(block.PrevHash, prevBlock.Hash) THEN FALSE
    ELSE IF SetBytes(block.Hash) > Target(difficulty) THEN FALSE
    ELSE TRUE

\* Block.isValid
isValid(block, prevBlock, difficulty) ==
    IF ~BytesEqual(block.Hash, calculateHash(block)) THEN FALSE
    ELSE IF ~BytesEqual(block.PrevHash, prevBlock.Hash) THEN FALSE
    ELSE IF block.Index # prevBlock.Index + 1 THEN FALSE
    ELSE IF SetBytes(block.Hash) > Target(difficulty) THEN FALSE
    ELSE TRUE

----------------------------------------------------------------------------
(* What the model records about the last call *)

\* the call: its name, up to three scalar arguments (0 when absent), a byte-string argument
Op(name, a, b, c, bytes) == [name |-> name, a |-> a, b |-> b, c |-> c, bytes |-> bytes]

\* the results: error text ("" for nil), *Block (0 for nil), bool
Ret(err, block, bool) == [err |-> err, block |-> block, bool |-> bool]

NoRet == Ret("", 0, FALSE)

\* what the runtime prints when an index is out of range, and when make is
\* given a negative length
PanicIndex == "panic: runtime error: index out of range"
PanicMakeslice == "panic: runtime error: makeslice: len out of range"

\* the process has not crashed
Running == ret.err \notin {PanicIndex, PanicMakeslice}

----------------------------------------------------------------------------
(* Block.Mine and its workers *)

NoResult == [Nonce |-> 0 - 1, Hash |-> <<>>]

\* a frame of Mine that is not running
IdleMine == [pc |-> "idle", blk |-> 0, difficulty |-> 0, target |-> 0, workers |-> 0,
             retries |-> 0, attempts |-> 0, failed |-> 0]

\* the block a caller has created but not appended
Pending(b) == \A i \in 1..Len(Blocks) : Blocks[i] # b

\* Mine blocks the task that called it: the caller makes its next call only
\* after Mine has returned
CallerFree == mine.pc \in {"idle", "ok", "err"}

\* the block Mine was called on
MinedBlock == heap[mine.blk]

\* the attempt whose channels and context Mine currently holds
Attempt == Len(wk)

\* Mine, entry: target := maxHash >> difficulty; attempts := 0
MineEnter(b, difficulty, workers, retries) ==
    [pc |-> "loop", blk |-> b, difficulty |-> difficulty, target |-> Target(difficulty),
     workers |-> workers, retries |-> retries, attempts |-> 0, failed |-> 0]

\* NewWorker that starts every worker at nonce 0
NewWorkerFromZero(block, startNonce, nonceIncrement, target) ==
    [pc |-> "run", block |-> [block EXCEPT !.Nonce = 0],
     nonceIncrement |-> nonceIncrement, target |-> target, result |-> NoResult]

\* proofOfWorkMiner, entry: the worker's own copy of the block, block.Nonce = startNonce
NewWorker(block, startNonce, nonceIncrement, target) ==
    [pc |-> "run", block |-> [block EXCEPT !.Nonce = startNonce],
     nonceIncrement |-> nonceIncrement, target |-> target, result |-> NoResult]

\* Mine called on block b (a call returns before the next one starts)
MineCall(b, difficulty, workers, retries) ==
    /\ mine.pc \in {"idle", "ok", "err"}
    /\ b \in 1..Len(heap)
    /\ mine' = MineEnter(b, difficulty, workers, retries)
    /\ wk' = <<>>
    /\ failure' = <<>>
    /\ ctx' = <<>>
    /\ op' = Op("Mine", b, difficulty, workers, <<>>)
    /\ UNCHANGED <<uploadCmd, netVars, chunkVars, merkleVars, heap, chainVars, file, now, ret, saved>>

\* Mine called once more on the block the last call sealed; op keeps the
\* Nonce and the Hash the block has at the call
MineAgain(difficulty, workers, retries) ==
    /\ mine.pc = "ok"
    /\ mine' = MineEnter(mine.blk, difficulty, workers, retries)
    /\ wk' = <<>>
    /\ failure' = <<>>
    /\ ctx' = <<>>
    /\ op' = Op("MineAgain", mine.blk, MinedBlock.Nonce, difficulty, MinedBlock.Hash)
    /\ UNCHANGED <<uploadCmd, netVars, chunkVars, merkleVars, heap, chainVars, file, now, ret, saved>>

\* Mine, loop head with attempts < retries: fresh channels and context,
\* failed := 0, one goroutine per worker, each handed a copy of *block
MineSpawn ==
    /\ mine.pc = "loop"
    /\ mine.attempts < mine.retries
    /\ wk' = Append(wk, [i \in 1..mine.workers |->
                           NewWorker(MinedBlock, i - 1, mine.workers, mine.target)])
    /\ failure' = Append(failure, 0)
    /\ ctx' = Append(ctx, FALSE)
    /\ mine' = [mine EXCEPT !.pc = "wait", !.failed = 0]
    /\ UNCHANGED <<uploadCmd, netVars, chunkVars, merkleVars, heap, chainVars, file, now, op, ret, saved>>

\* MineFound with the assignment to block.Nonce left out
MineFoundHashOnly(i) ==
    /\ mine.pc = "wait"
    /\ mine.failed < mine.workers
    /\ i \in 1..mine.workers
    /\ wk[Attempt][i].pc = "send"
    /\ ctx' = [ctx EXCEPT ![Attempt] = TRUE]
    /\ heap' = [heap EXCEPT ![mine.blk].Hash = wk[Attempt][i].result.Hash]
    /\ wk' = [wk EXCEPT ![Attempt][i].pc = "done"]
    /\ mine' = [mine EXCEPT !.pc = "ok"]
    /\ ret' = Ret("", 0, FALSE)
    /\ UNCHANGED <<uploadCmd, netVars, chunkVars, merkleVars, chainVars, file, now, op, saved, failure>>

\* MineFound that also stamps the block with the current time
MineFoundStamped(i) ==
    /\ mine.pc = "wait"
    /\ mine.failed < mine.workers
    /\ i \in 1..mine.workers
    /\ wk[Attempt][i].pc = "send"
    /\ ctx' = [ctx EXCEPT ![Attempt] = TRUE]
    /\ heap' = [heap EXCEPT ![mine.blk].Hash = wk[Attempt][i].result.Hash,
                            ![mine.blk].Nonce = wk[Attempt][i].result.Nonce,
                            ![mine.blk].Timestamp = TimeNow]
    /\ wk' = [wk EXCEPT ![Attempt][i].pc = "done"]
    /\ mine' = [mine EXCEPT !.pc = "ok"]
    /\ ret' = Ret("", 0, FALSE)
    /\ UNCHANGED <<uploadCmd, netVars, chunkVars, merkleVars, chainVars, file, now, op, saved, failure>>

\* MineFound that goes on waiting after it has taken a result
MineFoundKeepWaiting(i) ==
    /\ mine.pc = "wait"
    /\ mine.failed < mine.workers
    /\ i \in 1..mine.workers
    /\ wk[Attempt][i].pc = "send"
    /\ ctx' = [ctx EXCEPT ![Attempt] = TRUE]
    /\ heap' = [heap EXCEPT ![mine.blk].Hash = wk[Attempt][i].result.Hash,
                            ![mine.blk].Nonce = wk[Attempt][i].result.Nonce]
    /\ wk' = [wk EXCEPT ![Attempt][i].pc = "done"]
    /\ ret' = Ret("", 0, FALSE)
    /\ UNCHANGED <<uploadCmd, netVars, chunkVars, merkleVars, chainVars, file, now, op, saved, failure, mine>>

\* Mine, case finalResult := <-result: the rendezvous with worker i blocked
\* in its send; cancel(), block.Hash and block.Nonce from the result, return nil
MineFound(i) ==
    /\ mine.pc = "wait"
    /\ mine.failed < mine.workers
    /\ i \in 1..mine.workers
    /\ wk[Attempt][i].pc = "send"
    /\ ctx' = [ctx EXCEPT ![Attempt] = TRUE]
    /\ heap' = [heap EXCEPT ![mine.blk].Hash = wk[Attempt][i].result.Hash,
                            ![mine.blk].Nonce = wk[Attempt][i].result.Nonce]
    /\ wk' = [wk EXCEPT ![Attempt][i].pc = "done"]
    /\ mine' = [mine EXCEPT !.pc = "ok"]
    /\ ret' = Ret("", 0, FALSE)
    /\ UNCHANGED <<uploadCmd, netVars, chunkVars, merkleVars, chainVars, file, now, op, saved, failure>>

\* MineFailure that counts one report as two
MineFailureCountsTwice ==
    /\ mine.pc = "wait"
    /\ mine.failed < mine.workers
    /\ failure[Attempt] > 0
    /\ failure' = [failure EXCEPT ![Attempt] = @ - 1]
    /\ mine' = [mine EXCEPT !.failed = @ + 2]
    /\ UNCHANGED <<uploadCmd, netVars, chunkVars, merkleVars, heap, chainVars, file, now, op, ret, saved, wk, ctx>>

\* Mine, case <-failure: failed++
MineFailure ==
    /\ mine.pc = "wait"
    /\ mine.failed < mine.workers
    /\ failure[Attempt] > 0
    /\ failure' = [failure EXCEPT ![Attempt] = @ - 1]
    /\ mine' = [mine EXCEPT !.failed = @ + 1]
    /\ UNCHANGED <<uploadCmd, netVars, chunkVars, merkleVars, heap, chainVars, file, now, op, ret, saved, wk, ctx>>

\* MineRetry taken as soon as one worker has reported exhaustion
MineRetryAnyFailure ==
    /\ mine.pc = "wait"
    /\ mine.failed >= 1
    /\ ctx' = [ctx EXCEPT ![Attempt] = TRUE]
    /\ heap' = [heap EXCEPT ![mine.blk].Timestamp = TimeNow]
    /\ now' = Tick
    /\ mine' = [mine EXCEPT !.pc = "loop", !.attempts = @ + 1]
    /\ UNCHANGED <<uploadCmd, netVars, chunkVars, merkleVars, chainVars, file, op, ret, saved, wk, failure>>

\* Mine, after the inner loop: cancel(), attempts++, block.Timestamp = time.Now()
MineRetry ==
    /\ mine.pc = "wait"
    /\ ~(mine.failed < mine.workers)
    /\ ctx' = [ctx EXCEPT ![Attempt] = TRUE]
    /\ heap' = [heap EXCEPT ![mine.blk].Timestamp = TimeNow]
    /\ now' = Tick
    /\ mine' = [mine EXCEPT !.pc = "loop", !.attempts = @ + 1]
    /\ UNCHANGED <<uploadCmd, netVars, chunkVars, merkleVars, chainVars, file, op, ret, saved, wk, failure>>

\* MineExhausted that stores a fresh calculateHash() before returning the error
MineExhaustedRehash ==
    /\ mine.pc = "loop"
    /\ ~(mine.attempts < mine.retries)
    /\ mine' = [mine EXCEPT !.pc = "err"]
    /\ heap' = [heap EXCEPT ![mine.blk].Hash = calculateHash(MinedBlock)]
    /\ ret' = Ret("failed to mine block", 0, FALSE)
    /\ UNCHANGED <<uploadCmd, netVars, chunkVars, merkleVars, chainVars, file, now, op, saved, wk, failure, ctx>>

\* Mine, loop head with attempts >= retries: return the error
MineExhausted ==
    /\ mine.pc = "loop"
    /\ ~(mine.attempts < mine.retries)
    /\ mine' = [mine EXCEPT !.pc = "err"]
    /\ ret' = Ret("failed to mine block", 0, FALSE)
    /\ UNCHANGED <<uploadCmd, netVars, chunkVars, merkleVars, heap, chainVars, file, now, op, saved, wk, failure, ctx>>

\* Accepts with the comparison against the untruncated maximum
AcceptsAny(hash, target) == SetBytes(hash) <= maxHash

\* the worker's acceptance test: hashInt.Cmp(target) <= 0
Accepts(hash, target) == SetBytes(hash) <= target

\* proofOfWorkMiner, case <-ctx.Done(): return
WorkerCancelled(a, i) ==
    /\ wk[a][i].pc = "run"
    /\ ctx[a]
    /\ wk' = [wk EXCEPT ![a][i].pc = "done"]
    /\ UNCHANGED <<uploadCmd, netVars, chunkVars, merkleVars, heap, chainVars, file, now, op, ret, saved, mine, failure, ctx>>

\* proofOfWorkMiner, default case with a hash within the target: the worker
\* blocks in result <- &PowResult{Nonce, Hash} until Mine receives
WorkerFound(a, i) ==
    LET w == wk[a][i]
        hash == calculateHash(w.block)
    IN  /\ w.pc = "run"
        /\ ~ctx[a]
        /\ Accepts(hash, w.target)
        /\ wk' = [wk EXCEPT ![a][i].pc = "send",
                            ![a][i].result = [Nonce |-> w.block.Nonce, Hash |-> hash]]
        /\ UNCHANGED <<uploadCmd, netVars, chunkVars, merkleVars, heap, chainVars, file, now, op, ret, saved, mine, failure, ctx>>

\* WorkerExhausted that returns without sending on failure
WorkerExhaustedSilent(a, i) ==
    LET w == wk[a][i]
    IN  /\ w.pc = "run"
        /\ ~ctx[a]
        /\ ~Accepts(calculateHash(w.block), w.target)
        /\ w.block.Nonce > MaxInt - w.nonceIncrement
        /\ wk' = [wk EXCEPT ![a][i].pc = "done"]
        /\ UNCHANGED <<uploadCmd, netVars, chunkVars, merkleVars, heap, chainVars, file, now, op, ret, saved, mine, failure, ctx>>

\* proofOfWorkMiner, hash above the target and block.Nonce > math.MaxInt -
\* nonceIncrement: failure <- true (buffered, capacity workers), return
WorkerExhausted(a, i) ==
    LET w == wk[a][i]
    IN  /\ w.pc = "run"
        /\ ~ctx[a]
        /\ ~Accepts(calculateHash(w.block), w.target)
        /\ w.block.Nonce > MaxInt - w.nonceIncrement
        /\ failure[a] < Len(wk[a])
        /\ failure' = [failure EXCEPT ![a] = @ + 1]
        /\ wk' = [wk EXCEPT ![a][i].pc = "done"]
        /\ UNCHANGED <<uploadCmd, netVars, chunkVars, merkleVars, heap, chainVars, file, now, op, ret, saved, mine, ctx>>

\* WorkerNext on a worker that was handed the caller's block, not a copy
WorkerNextShared(a, i) ==
    LET w == wk[a][i]
    IN  /\ w.pc = "run"
        /\ ~ctx[a]
        /\ ~Accepts(calculateHash(w.block), w.target)
        /\ ~(w.block.Nonce > MaxInt - w.nonceIncrement)
        /\ wk' = [wk EXCEPT ![a][i].block.Nonce = @ + w.nonceIncrement]
        /\ heap' = [heap EXCEPT ![mine.blk].Nonce = w.block.Nonce + w.nonceIncrement]
        /\ UNCHANGED <<uploadCmd, netVars, chunkVars, merkleVars, chainVars, file, now, op, ret, saved, mine, failure, ctx>>

\* WorkerNext without the test against math.MaxInt: the sum wraps around
WorkerNextWrapping(a, i) ==
    LET w == wk[a][i]
        sum == w.block.Nonce + w.nonceIncrement
    IN  /\ w.pc = "run"
        /\ ~ctx[a]
        /\ ~Accepts(calculateHash(w.block), w.target)
        /\ wk' = [wk EXCEPT ![a][i].block.Nonce =
                                IF sum > MaxInt THEN sum - 2 * (MaxInt + 1) ELSE sum]
        /\ UNCHANGED <<uploadCmd, netVars, chunkVars, merkleVars, heap, chainVars, file, now, op, ret, saved, mine, failure, ctx>>

\* proofOfWorkMiner, hash above the target: block.Nonce += nonceIncrement
WorkerNext(a, i) ==
    LET w == wk[a][i]
    IN  /\ w.pc = "run"
        /\ ~ctx[a]
        /\ ~Accepts(calculateHash(w.block), w.target)
        /\ ~(w.block.Nonce > MaxInt - w.nonceIncrement)
        /\ wk' = [wk EXCEPT ![a][i].block.Nonce = @ + w.nonceIncrement]
        /\ UNCHANGED <<uploadCmd, netVars, chunkVars, merkleVars, heap, chainVars, file, now, op, ret, saved, mine, failure, ctx>>

----------------------------------------------------------------------------
(* Block construction and checks called by the ledger's users *)

\* CreateBlock that copies the index of the last block
CreateBlockSameIndex(prevBlock, merkelRoot, timestamp) ==
    LET block == [Index |-> prevBlock.Index,
                  Timestamp |-> timestamp,
                  MerkelRoot |-> merkelRoot,
                  PrevHash |-> prevBlock.Hash,
                  Hash |-> <<>>,
                  Nonce |-> 0]
    IN  [block EXCEPT !.Hash = calculateHash(block)]

\* CreateBlock that links to the block before the last one
CreateBlockStaleLink(prevBlock, merkelRoot, timestamp) ==
    LET block == [Index |-> prevBlock.Index + 1,
                  Timestamp |-> timestamp,
                  MerkelRoot |-> merkelRoot,
                  PrevHash |-> prevBlock.PrevHash,
                  Hash |-> <<>>,
                  Nonce |-> 0]
    IN  [block EXCEPT !.Hash = calculateHash(block)]

\* CreateBlock: the block built on prevBlock = the chain's last block
CreateBlock(prevBlock, merkelRoot, timestamp) ==
    LET block == [Index |-> prevBlock.Index + 1,
                  Timestamp |-> timestamp,
                  MerkelRoot |-> merkelRoot,
                  PrevHash |-> prevBlock.Hash,
                  Hash |-> <<>>,
                  Nonce |-> 0]
    IN  [block EXCEPT !.Hash = calculateHash(block)]

\* a caller allocates a block: &Block{...}
NewBlock(block) ==
    /\ Len(heap) < MaxHeap
    /\ heap' = Append(heap, block)
    /\ op' = Op("new", Len(heap) + 1, 0, 0, <<>>)
    /\ ret' = Ret("", Len(heap) + 1, FALSE)
    /\ UNCHANGED <<uploadCmd, netVars, chunkVars, merkleVars, chainVars, file, now, saved, mineVars>>

\* block.isValid(prevBlock, difficulty) called on two allocated blocks
IsValidCall(b, p, difficulty) ==
    /\ b \in 1..Len(heap)
    /\ p \in 1..Len(heap)
    /\ op' = Op("isValid", b, p, difficulty, <<>>)
    /\ ret' = Ret("", 0, isValid(heap[b], heap[p], difficulty))
    /\ UNCHANGED <<uploadCmd, netVars, chunkVars, merkleVars, heap, chainVars, file, now, saved, mineVars>>

\* block.Hash = block.calculateHash()
Rehash(b) ==
    /\ b \in 1..Len(heap)
    /\ heap' = [heap EXCEPT ![b].Hash = calculateHash(heap[b])]
    /\ op' = Op("calculateHash", b, 0, 0, calculateHash(heap[b]))
    /\ ret' = NoRet
    /\ UNCHANGED <<uploadCmd, netVars, chunkVars, merkleVars, chainVars, file, now, saved, mineVars>>

\* a caller overwrites a field of an allocated block, as the tests do:
\* block.MerkelRoot = []byte("tampered"), block.Index = 99
TamperMerkelRoot(b, merkelRoot) ==
    /\ b \in 1..Len(heap)
    /\ heap[b].MerkelRoot # merkelRoot
    /\ heap' = [heap EXCEPT ![b].MerkelRoot = merkelRoot]
    /\ op' = Op("tamperMerkelRoot", b, 0, 0, merkelRoot)
    /\ ret' = NoRet
    /\ UNCHANGED <<uploadCmd, netVars, chunkVars, merkleVars, chainVars, file, now, saved, mineVars>>

TamperIndex(b, index) ==
    /\ b \in 1..Len(heap)
    /\ heap[b].Index # index
    /\ heap' = [heap EXCEPT ![b].Index = index]
    /\ op' = Op("tamperIndex", b, index, 0, <<>>)
    /\ ret' = NoRet
    /\ UNCHANGED <<uploadCmd, netVars, chunkVars, merkleVars, chainVars, file, now, saved, mineVars>>

----------------------------------------------------------------------------
(* Blockchain *)

\* m[key] = block on a Go map
MapPut(m, key, block) ==
    [x \in (DOMAIN m) \cup {key} |-> IF x = key THEN block ELSE m[x]]

\* Blockchain.length
length == Len(Blocks)

\* Blockchain.lastBlock (of a chain that has a block)
lastBlock == Blocks[Len(Blocks)]

\* addBlock that leaves the Merkle-root map alone
addBlockNoRoot(blocks, byHash, byRoot, b) ==
    [Blocks |-> Append(blocks, b),
     BlocksMapByHash |-> MapPut(byHash, EncodeToString(heap[b].Hash), b),
     BlocksMapByMerkelRoot |-> byRoot]

\* addBlock that keeps the entry a key already has
addBlockKeepFirst(blocks, byHash, byRoot, b) ==
    [Blocks |-> Append(blocks, b),
     BlocksMapByHash |->
         IF EncodeToString(heap[b].Hash) \in DOMAIN byHash THEN byHash
         ELSE MapPut(byHash, EncodeToString(heap[b].Hash), b),
     BlocksMapByMerkelRoot |->
         IF EncodeToString(heap[b].MerkelRoot) \in DOMAIN byRoot THEN byRoot
         ELSE MapPut(byRoot, EncodeToString(heap[b].MerkelRoot), b)]

\* Blockchain.addBlock, the new value of the three fields
addBlock(blocks, byHash, byRoot, b) ==
    [Blocks |-> Append(blocks, b),
     BlocksMapByHash |-> MapPut(byHash, EncodeToString(heap[b].Hash), b),
     BlocksMapByMerkelRoot |-> MapPut(byRoot, EncodeToString(heap[b].MerkelRoot), b)]

\* AddBlock that validates the link first and drops a block that does not fit
AddBlockChecked(b) ==
    /\ b \in 1..Len(heap)
    /\ Len(Blocks) < MaxChain
    /\ LET after == IF Len(Blocks) >= 1
                       /\ ~BytesEqual(heap[b].PrevHash, heap[Blocks[Len(Blocks)]].Hash)
                    THEN [Blocks |-> Blocks, BlocksMapByHash |-> BlocksMapByHash,
                          BlocksMapByMerkelRoot |-> BlocksMapByMerkelRoot]
                    ELSE addBlock(Blocks, BlocksMapByHash, BlocksMapByMerkelRoot, b)
       IN  /\ Blocks' = after.Blocks
           /\ BlocksMapByHash' = after.BlocksMapByHash
           /\ BlocksMapByMerkelRoot' = after.BlocksMapByMerkelRoot
    /\ op' = Op("addBlock", b, 0, 0, <<>>)
    /\ ret' = NoRet
    /\ UNCHANGED <<uploadCmd, netVars, chunkVars, merkleVars, heap, file, now, saved, mineVars>>

\* blockchain.addBlock(b)
AddBlock(b) ==
    /\ b \in 1..Len(heap)
    /\ Len(Blocks) < MaxChain
    /\ LET after == addBlock(Blocks, BlocksMapByHash, BlocksMapByMerkelRoot, b)
       IN  /\ Blocks' = after.Blocks
           /\ BlocksMapByHash' = after.BlocksMapByHash
           /\ BlocksMapByMerkelRoot' = after.BlocksMapByMerkelRoot
    /\ op' = Op("addBlock", b, 0, 0, <<>>)
    /\ ret' = NoRet
    /\ UNCHANGED <<uploadCmd, netVars, chunkVars, merkleVars, heap, file, now, saved, mineVars>>

\* CreateBlock(blockchain, merkelRoot) on a chain that has a block
CreateBlockCall(merkelRoot) ==
    /\ Len(Blocks) >= 1
    /\ Len(heap) < MaxHeap
    /\ heap' = Append(heap, CreateBlock(heap[lastBlock], merkelRoot, TimeNow))
    /\ now' = Tick
    /\ op' = Op("CreateBlock", Len(heap) + 1, 0, 0, merkelRoot)
    /\ ret' = Ret("", Len(heap) + 1, FALSE)
    /\ UNCHANGED <<uploadCmd, netVars, chunkVars, merkleVars, chainVars, file, saved, mineVars>>

\* CreateBlock(blockchain, merkelRoot) on a chain without a block:
\* blockchain.Blocks[len(blockchain.Blocks)-1] indexes an empty slice
CreateBlockOnEmpty(merkelRoot) ==
    /\ Len(Blocks) = 0
    /\ op' = Op("CreateBlock", 0, 0, 0, merkelRoot)
    /\ ret' = Ret(PanicIndex, 0, FALSE)
    /\ UNCHANGED <<uploadCmd, netVars, chunkVars, merkleVars, heap, chainVars, file, now, saved, mineVars>>

\* blockchain.lastBlock(): blockchain.Blocks[len(blockchain.Blocks)-1]
LastBlockCall ==
    /\ op' = Op("lastBlock", 0, 0, 0, <<>>)
    /\ ret' = IF Len(Blocks) = 0 THEN Ret(PanicIndex, 0, FALSE) ELSE Ret("", lastBlock, FALSE)
    /\ UNCHANGED <<uploadCmd, netVars, chunkVars, merkleVars, heap, chainVars, file, now, saved, mineVars>>

\* getBlockByHash that reports a missing key as (nil, nil)
getBlockByHashNoError(hash) ==
    IF EncodeToString(hash) \notin DOMAIN BlocksMapByHash
    THEN Ret("", 0, FALSE)
    ELSE Ret("", BlocksMapByHash[EncodeToString(hash)], FALSE)

\* Blockchain.getBlockByHash
getBlockByHash(hash) ==
    IF EncodeToString(hash) \notin DOMAIN BlocksMapByHash
    THEN Ret("no block with matching hash in the blockchain", 0, FALSE)
    ELSE Ret("", BlocksMapByHash[EncodeToString(hash)], FALSE)

\* Blockchain.getBlockByMerkelRoot
getBlockByMerkelRoot(merkelRoot) ==
    IF EncodeToString(merkelRoot) \notin DOMAIN BlocksMapByMerkelRoot
    THEN Ret("no block with matching merkel root in the blockchain", 0, FALSE)
    ELSE Ret("", BlocksMapByMerkelRoot[EncodeToString(merkelRoot)], FALSE)

GetBlockByHash(hash) ==
    /\ op' = Op("getBlockByHash", 0, 0, 0, hash)
    /\ ret' = getBlockByHash(hash)
    /\ UNCHANGED <<uploadCmd, netVars, chunkVars, merkleVars, heap, chainVars, file, now, saved, mineVars>>

GetBlockByMerkelRoot(merkelRoot) ==
    /\ op' = Op("getBlockByMerkelRoot", 0, 0, 0, merkelRoot)
    /\ ret' = getBlockByMerkelRoot(merkelRoot)
    /\ UNCHANGED <<uploadCmd, netVars, chunkVars, merkleVars, heap, chainVars, file, now, saved, mineVars>>

\* validateChain comparing Hash with the previous Hash, as an earlier version
\* of the file did
RECURSIVE validateChainFromHash(_, _, _)
validateChainFromHash(h, blocks, i) ==
    IF ~(i <= Len(blocks)) THEN TRUE
    ELSE IF ~BytesEqual(h[blocks[i]].Hash, h[blocks[i - 1]].Hash) THEN FALSE
    ELSE validateChainFromHash(h, blocks, i + 1)

\* validateChain that looks at the last pair of blocks only
RECURSIVE validateChainFromLast(_, _, _)
validateChainFromLast(h, blocks, i) ==
    IF ~(i <= Len(blocks)) THEN TRUE
    ELSE BytesEqual(h[blocks[Len(blocks)]].PrevHash, h[blocks[Len(blocks) - 1]].Hash)

\* Blockchain.validateChain: the loop from position i (i = 2 is Go's i := 1)
RECURSIVE validateChainFrom(_, _, _)
validateChainFrom(h, blocks, i) ==
    IF ~(i <= Len(blocks)) THEN TRUE
    ELSE IF ~BytesEqual(h[blocks[i]].PrevHash, h[blocks[i - 1]].Hash) THEN FALSE
    ELSE validateChainFrom(h, blocks, i + 1)

validateChain == validateChainFrom(heap, Blocks, 2)

ValidateChain ==
    /\ op' = Op("validateChain", 0, 0, 0, <<>>)
    /\ ret' = Ret("", 0, validateChain)
    /\ UNCHANGED <<uploadCmd, netVars, chunkVars, merkleVars, heap, chainVars, file, now, saved, mineVars>>

\* a caller overwrites PrevHash of the block at position i of the chain, as
\* the test does: blockchain.Blocks[1].PrevHash = []byte("tampered_prev_hash");
\* one block is tampered with, once
TamperPrevHash(i, prevHash) ==
    /\ i \in 1..Len(Blocks)
    /\ \A b \in 1..Len(heap) : heap[b].PrevHash # prevHash
    /\ heap' = [heap EXCEPT ![Blocks[i]].PrevHash = prevHash]
    /\ op' = Op("tamperPrevHash", i, 0, 0, prevHash)
    /\ ret' = NoRet
    /\ UNCHANGED <<uploadCmd, netVars, chunkVars, merkleVars, chainVars, file, now, saved, mineVars>>

----------------------------------------------------------------------------
(* Persistence: encoding/json over []*Block *)

\* strconv-style parse of the decimal digits FormatInt writes
RECURSIVE ParseNat(_)
ParseNat(digits) ==
    IF digits = <<>> THEN 0
    ELSE 10 * ParseNat(SubSeq(digits, 1, Len(digits) - 1)) + (digits[Len(digits)].v - 48)

ParseInt(digits) ==
    IF digits # <<>> /\ digits[1].v = 45 THEN 0 - ParseNat(Tail(digits)) ELSE ParseNat(digits)

\* base64.StdEncoding over a []byte field, atom by atom
RECURSIVE Base64Encode(_)
Base64Encode(bytes) ==
    IF bytes = <<>> THEN <<>>
    ELSE <<[k |-> IF bytes[1].k = "sha" THEN "b64sha" ELSE "b64", v |-> bytes[1].v,
            c |-> bytes[1].c]>> \o Base64Encode(Tail(bytes))

RECURSIVE Base64Decode(_)
Base64Decode(text) ==
    IF text = <<>> THEN <<>>
    ELSE <<[k |-> IF text[1].k = "b64sha" THEN "sha" ELSE "byte", v |-> text[1].v,
            c |-> text[1].c]>> \o Base64Decode(Tail(text))

\* time.Time.MarshalJSON: the RFC 3339 text of the wall clock; the monotonic
\* reading is not written
TimeMarshalJSON(t) == [rfc3339 |-> t.wall]

\* time.Time.UnmarshalJSON: a time without monotonic reading
TimeUnmarshalJSON(text) == [wall |-> text.rfc3339, mono |-> NoMono]

\* json.Marshal of one Block
MarshalBlock(block) ==
    [index |-> FormatInt(block.Index),
     timestamp |-> TimeMarshalJSON(block.Timestamp),
     merkelRoot |-> Base64Encode(block.MerkelRoot),
     prevHash |-> Base64Encode(block.PrevHash),
     hash |-> Base64Encode(block.Hash),
     nonce |-> FormatInt(block.Nonce)]

\* json.Unmarshal of one Block
UnmarshalBlock(object) ==
    [Index |-> ParseInt(object.index),
     Timestamp |-> TimeUnmarshalJSON(object.timestamp),
     MerkelRoot |-> Base64Decode(object.merkelRoot),
     PrevHash |-> Base64Decode(object.prevHash),
     Hash |-> Base64Decode(object.hash),
     Nonce |-> ParseInt(object.nonce)]

\* json.MarshalIndent(blockchain.Blocks, "", "  "): the array of the blocks
\* the pointers refer to; the two maps are not part of it
MarshalBlocks(h, blocks) == [i \in 1..Len(blocks) |-> MarshalBlock(h[blocks[i]])]

NoFile == <<[missing |-> TRUE]>>

\* Blockchain.writeToFile
WriteToFile ==
    /\ file' = MarshalBlocks(heap, Blocks)
    /\ saved' = [i \in 1..Len(Blocks) |-> heap[Blocks[i]]]
    /\ op' = Op("writeToFile", 0, 0, 0, <<>>)
    /\ ret' = NoRet
    /\ UNCHANGED <<uploadCmd, netVars, chunkVars, merkleVars, heap, chainVars, now, mineVars>>

\* blockchainFromFile, the loop that rebuilds the two maps over blocks[i..]
RECURSIVE RebuildMaps(_, _, _)
RebuildMaps(blocks, i, maps) ==
    IF i > Len(blocks) THEN maps
    ELSE RebuildMaps(blocks, i + 1,
             [BlocksMapByHash |->
                  MapPut(maps.BlocksMapByHash, EncodeToString(blocks[i].Hash), i),
              BlocksMapByMerkelRoot |->
                  MapPut(maps.BlocksMapByMerkelRoot, EncodeToString(blocks[i].MerkelRoot), i)])

EmptyChainMaps == [key \in {} |-> 0]

\* blockchainFromFile: the chain read back replaces the one the caller held;
\* the blocks of the old chain are dropped with it.  Without a file the
\* read error is returned and nothing changes.
BlockchainFromFile ==
    /\ mine.pc \in {"idle", "ok", "err"}
    /\ op' = Op("blockchainFromFile", 0, 0, 0, <<>>)
    /\ IF file = NoFile
       THEN /\ ret' = Ret("open: no such file or directory", 0, FALSE)
            /\ UNCHANGED <<heap, chainVars, mineVars>>
       ELSE LET blocks == [i \in 1..Len(file) |-> UnmarshalBlock(file[i])]
                maps == RebuildMaps(blocks, 1, [BlocksMapByHash |-> EmptyChainMaps,
                                                BlocksMapByMerkelRoot |-> EmptyChainMaps])
            IN  /\ heap' = blocks
                /\ Blocks' = [i \in 1..Len(blocks) |-> i]
                /\ BlocksMapByHash' = maps.BlocksMapByHash
                /\ BlocksMapByMerkelRoot' = maps.BlocksMapByMerkelRoot
                /\ ret' = NoRet
                /\ mine' = IdleMine
                /\ wk' = <<>>
                /\ failure' = <<>>
                /\ ctx' = <<>>
    /\ UNCHANGED <<uploadCmd, netVars, chunkVars, merkleVars, file, now, saved>>

----------------------------------------------------------------------------
(* Inputs *)

RootA == <<Byte(109)>>
RootB == Sum256(<<Byte(99)>>)
GenesisHash == <<Byte(103)>>
OtherHash == <<Byte(104)>>
Tampered == <<Byte(116)>>

\* blocks handed to Mine by the tests: &Block{Index: 1, Timestamp: time.Now(),
\* MerkelRoot: ..., PrevHash: ...}, Hash and Nonce left zero
MineInputs ==
    [Index : {1}, Timestamp : {ZeroTime, [wall |-> 1, mono |-> 1]},
     MerkelRoot : {RootA, RootB}, PrevHash : {GenesisHash}, Hash : {<<>>}, Nonce : {0}]

\* prevBlock := &Block{Index: 0, Hash: []byte("genesis_hash")}
Genesis ==
    [Index |-> 0, Timestamp |-> ZeroTime, MerkelRoot |-> <<>>, PrevHash |-> <<>>,
     Hash |-> GenesisHash, Nonce |-> 0]

\* blocks the tests append: literals with a few fields set
ChainInputs ==
    {Genesis,
     [Index |-> 1, Timestamp |-> [wall |-> 1, mono |-> 1], MerkelRoot |-> RootA,
      PrevHash |-> GenesisHash, Hash |-> OtherHash, Nonce |-> 10],
     [Index |-> 2, Timestamp |-> ZeroTime, MerkelRoot |-> RootA,
      PrevHash |-> OtherHash, Hash |-> GenesisHash, Nonce |-> 0]}

\* hashes and roots looked up: those of the allocated blocks, appended or
\* not, and one that no block has
LookupHashes == {heap[b].Hash : b \in 1..Len(heap)} \cup {Tampered}
LookupRoots == {heap[b].MerkelRoot : b \in 1..Len(heap)} \cup {Tampered}

\* no tree was built
NoTree == [Root |-> 0, Leaves |-> <<>>]

\* a ledger task that holds no chunks, tree or proof
NoMerkle ==
    /\ chunks = <<>>
    /\ nodes = <<>>
    /\ tree = NoTree
    /\ data = <<>>
    /\ merkleRoot = <<>>
    /\ merkleProof = <<>>

----------------------------------------------------------------------------
(* Chunking: chunkFile, buildFile *)

\* bytes per unit of chunkSizeMB (1024*1024 in the code)
MB == 4

\* width of int64 (64 in the code)
IntBits == 5

\* an int64 product as the machine keeps it: the low IntBits bits, signed
Wrap64(n) ==
    LET m == n % Pow2(IntBits)
    IN  IF m >= Pow2(IntBits - 1) THEN m - Pow2(IntBits) ELSE m

Min(a, b) == IF a < b THEN a ELSE b

\* the bytes of a chunk sequence in order
RECURSIVE Flatten(_)
Flatten(cs) == IF cs = <<>> THEN <<>> ELSE cs[1] \o Flatten(Tail(cs))

\* a frame of chunkFile that is not running
IdleReader == [pc |-> "idle", buffer |-> 0, off |-> 0, chunks |-> <<>>]

\* nothing was chunked or built
NoChunking ==
    /\ content = <<>>
    /\ reader = IdleReader
    /\ rebuilt = NoFile

\* a frame of uploadCmd.RunE that is not running
IdleUpload == [pc |-> "idle", workers |-> 0, retries |-> 0, err |-> ""]

\* the upload command was not run
NoUpload == uploadCmd = IdleUpload

\* a frame of connectToBootstrapPeers that is not running
IdleConnect == [pc |-> "idle", bootstrapPeers |-> <<>>, connected |-> 0, attempted |-> 0,
                err |-> ""]

\* the node has not started: no peer, the mutex free, no task
NoNetwork ==
    /\ Peers = <<>>
    /\ PeersMutex = 0
    /\ connect = IdleConnect
    /\ task = <<>>

\* chunkFile(filepath, chunkSizeMB), up to the loop: os.Open, var chunks,
\* buffer := make([]byte, chunkSizeMB*1024*1024); make panics on a negative
\* length
ChunkFileCall(chunkSizeMB) ==
    /\ Running
    /\ reader.pc # "loop"
    /\ op' = Op("chunkFile", chunkSizeMB, 0, 0, <<>>)
    /\ IF content = NoFile
       THEN /\ ret' = Ret("open: no such file or directory", 0, FALSE)
            /\ reader' = [IdleReader EXCEPT !.pc = "done"]
            /\ chunks' = <<>>
       ELSE IF Wrap64(chunkSizeMB * MB) < 0
       THEN /\ ret' = Ret(PanicMakeslice, 0, FALSE)
            /\ reader' = IdleReader
            /\ chunks' = chunks
       ELSE /\ ret' = NoRet
            /\ reader' = [pc |-> "loop", buffer |-> Wrap64(chunkSizeMB * MB), off |-> 0,
                          chunks |-> <<>>]
            /\ chunks' = chunks
    /\ UNCHANGED <<uploadCmd, netVars, content, rebuilt, nodes, tree, data, merkleRoot, merkleProof, heap,
                   chainVars, file, now, saved, mineVars>>

\* ChunkRead that also keeps the chunk of a read of no bytes
ChunkReadKeepEmpty(bytesRead) ==
    /\ reader.pc = "loop"
    /\ bytesRead \in 0..Min(reader.buffer, Len(content) - reader.off)
    /\ bytesRead = 0 => (reader.buffer = 0 \/ reader.off = Len(content))
    /\ LET chunk == SubSeq(content, reader.off + 1, reader.off + bytesRead)
           read == Append(reader.chunks, chunk)
       IN  IF bytesRead = 0 /\ reader.buffer > 0
           THEN /\ reader' = [reader EXCEPT !.pc = "done", !.chunks = read]
                /\ chunks' = read
           ELSE /\ reader' = [reader EXCEPT !.chunks = read, !.off = @ + bytesRead]
                /\ chunks' = chunks
    /\ UNCHANGED <<uploadCmd, netVars, content, rebuilt, nodes, tree, data, merkleRoot, merkleProof, heap,
                   chainVars, file, now, op, ret, saved, mineVars>>

\* chunkFile, one turn of the loop: bytesRead, err := file.Read(buffer).
\* Read gives between 1 and len(buffer) of the bytes left; (0, io.EOF) when
\* none is left; (0, nil) into a buffer of length 0.  A read of bytesRead > 0
\* appends a copy of buffer[:bytesRead]; io.EOF ends the loop and the chunks
\* are returned.
ChunkRead(bytesRead) ==
    /\ reader.pc = "loop"
    /\ bytesRead \in 0..Min(reader.buffer, Len(content) - reader.off)
    /\ bytesRead = 0 => (reader.buffer = 0 \/ reader.off = Len(content))
    /\ LET chunk == SubSeq(content, reader.off + 1, reader.off + bytesRead)
           read == IF bytesRead > 0 THEN Append(reader.chunks, chunk) ELSE reader.chunks
       IN  IF bytesRead = 0 /\ reader.buffer > 0
           THEN /\ reader' = [reader EXCEPT !.pc = "done", !.chunks = read]
                /\ chunks' = read
           ELSE /\ reader' = [reader EXCEPT !.chunks = read, !.off = @ + bytesRead]
                /\ chunks' = chunks
    /\ UNCHANGED <<uploadCmd, netVars, content, rebuilt, nodes, tree, data, merkleRoot, merkleProof, heap,
                   chainVars, file, now, op, ret, saved, mineVars>>

\* buildFile(filepath, chunks): os.Create truncates the file, every chunk is
\* written in order
BuildFile ==
    /\ Running
    /\ reader.pc = "done"
    /\ ret.err = ""
    /\ rebuilt' = Flatten(chunks)
    /\ op' = Op("buildFile", op.a, 0, 0, <<>>)
    /\ ret' = NoRet
    /\ UNCHANGED <<uploadCmd, netVars, content, reader, merkleVars, heap, chainVars, file, now, saved, mineVars>>

----------------------------------------------------------------------------
(* Merkle tree: newMerkleTree, generateMerkleProof, validateMerkleProof *)

\* newLeafMerkleNode(fileChunk)
newLeafMerkleNode(fileChunk) ==
    [Left |-> 0, Right |-> 0, Parent |-> 0, Hash |-> Sum256(fileChunk)]

\* newMerkleNode(left, right, parent), the children read from the objects ns
newMerkleNode(ns, left, right, parent) ==
    [Left |-> left, Right |-> right, Parent |-> parent,
     Hash |-> Sum256(ns[left].Hash \o ns[right].Hash)]

\* an odd level made even with its first node
PaddedFirst(currentLevel) ==
    IF Len(currentLevel) % 2 = 1
    THEN Append(currentLevel, currentLevel[1])
    ELSE currentLevel

\* newMerkleTree: an odd level is made even with its last node; the same
\* pointer is appended, no node is copied
Padded(currentLevel) ==
    IF Len(currentLevel) % 2 = 1
    THEN Append(currentLevel, currentLevel[Len(currentLevel)])
    ELSE currentLevel

\* newMerkleTree, the inner loop: a parent for every pair from position i on
RECURSIVE PairUp(_, _, _, _)
PairUp(ns, currentLevel, i, levelAbove) ==
    IF ~(i <= Len(currentLevel)) THEN [nodes |-> ns, levelAbove |-> levelAbove]
    ELSE LET parent == Len(ns) + 1
             made == Append(ns, newMerkleNode(ns, currentLevel[i], currentLevel[i + 1], 0))
             linked == [made EXCEPT ![currentLevel[i]].Parent = parent,
                                    ![currentLevel[i + 1]].Parent = parent]
         IN  PairUp(linked, currentLevel, i + 2, Append(levelAbove, parent))

\* newMerkleTree, the outer loop: while len(currentLevel) > 1
RECURSIVE BuildLevels(_, _)
BuildLevels(ns, currentLevel) ==
    IF ~(Len(currentLevel) > 1) THEN [nodes |-> ns, currentLevel |-> currentLevel]
    ELSE LET above == PairUp(ns, Padded(currentLevel), 1, <<>>)
         IN  BuildLevels(above.nodes, above.levelAbove)

\* newMerkleTree(fileChunks): the objects made and the tree returned;
\* currentLevel[0] panics when there is no chunk
newMerkleTree(fileChunks) ==
    LET leafNodes == [i \in 1..Len(fileChunks) |-> newLeafMerkleNode(fileChunks[i])]
        built == BuildLevels(leafNodes, [i \in 1..Len(fileChunks) |-> i])
    IN  IF Len(built.currentLevel) = 0
        THEN [panic |-> TRUE, nodes |-> <<>>, tree |-> NoTree]
        ELSE [panic |-> FALSE, nodes |-> built.nodes,
              tree |-> [Root |-> built.currentLevel[1],
                        Leaves |-> [i \in 1..Len(fileChunks) |-> i]]]

\* tree := newMerkleTree(chunks)
NewMerkleTree ==
    /\ Running
    /\ tree = NoTree
    /\ LET built == newMerkleTree(chunks)
       IN  /\ nodes' = built.nodes
           /\ tree' = built.tree
           /\ ret' = IF built.panic THEN Ret(PanicIndex, 0, FALSE) ELSE NoRet
    /\ op' = Op("newMerkleTree", Len(chunks), 0, 0, <<>>)
    /\ UNCHANGED <<uploadCmd, netVars, chunkVars, chunks, data, merkleRoot, merkleProof, heap, chainVars, file, now,
                   saved, mineVars>>

\* the walk recording the flag of the node instead of the flag of its sibling
RECURSIVE ProofFromOwnSide(_, _, _)
ProofFromOwnSide(ns, node, proof) ==
    LET parent == ns[node].Parent
    IN  IF ~(parent # 0) THEN proof
        ELSE IF ns[parent].Left # node
        THEN ProofFromOwnSide(ns, parent,
                       Append(proof, [Hash |-> ns[ns[parent].Left].Hash, Left |-> FALSE]))
        ELSE ProofFromOwnSide(ns, parent,
                       Append(proof, [Hash |-> ns[ns[parent].Right].Hash, Left |-> TRUE]))

\* generateMerkleProof, the walk from node up to the root
RECURSIVE ProofFrom(_, _, _)
ProofFrom(ns, node, proof) ==
    LET parent == ns[node].Parent
    IN  IF ~(parent # 0) THEN proof
        ELSE IF ns[parent].Left # node
        THEN ProofFrom(ns, parent,
                       Append(proof, [Hash |-> ns[ns[parent].Left].Hash, Left |-> TRUE]))
        ELSE ProofFrom(ns, parent,
                       Append(proof, [Hash |-> ns[ns[parent].Right].Hash, Left |-> FALSE]))

\* merkleTree.generateMerkleProof(chunkIndex); chunkIndex counts from 0
generateMerkleProof(ns, merkleTree, chunkIndex) ==
    ProofFrom(ns, merkleTree.Leaves[chunkIndex + 1], <<>>)

\* the loop appending every sibling hash, whatever its flag
RECURSIVE FoldProofAppend(_, _, _)
FoldProofAppend(hash, proof, k) ==
    IF k > Len(proof) THEN hash
    ELSE FoldProofAppend(Sum256(hash \o proof[k].Hash), proof, k + 1)

\* validateMerkleProof, the loop over the steps from step k on
RECURSIVE FoldProof(_, _, _)
FoldProof(hash, proof, k) ==
    IF k > Len(proof) THEN hash
    ELSE IF proof[k].Left
    THEN FoldProof(Sum256(proof[k].Hash \o hash), proof, k + 1)
    ELSE FoldProof(Sum256(hash \o proof[k].Hash), proof, k + 1)

\* validateMerkleProof comparing the claimed root with itself
validateMerkleProofSelf(d, root, proof) == BytesEqual(root, root)

\* validateMerkleProof(data, merkleRoot, merkleProof)
validateMerkleProof(d, root, proof) ==
    BytesEqual(FoldProof(Sum256(d), proof, 1), root)

\* which part of the triple a caller has altered since the tree produced it
Untouched == 0
AlteredData == 1
AlteredRoot == 2
AlteredStepHash == 3
AlteredStepLeft == 4

\* a caller takes chunk chunkIndex, the root of the tree and the proof of
\* the chunk
GenerateMerkleProof(chunkIndex) ==
    /\ Running
    /\ tree # NoTree
    /\ chunkIndex \in 0..(Len(tree.Leaves) - 1)
    /\ data' = chunks[chunkIndex + 1]
    /\ merkleRoot' = nodes[tree.Root].Hash
    /\ merkleProof' = generateMerkleProof(nodes, tree, chunkIndex)
    /\ op' = Op("generateMerkleProof", chunkIndex, Untouched, 0, <<>>)
    /\ ret' = NoRet
    /\ UNCHANGED <<uploadCmd, netVars, chunkVars, chunks, nodes, tree, heap, chainVars, file, now, saved, mineVars>>

\* the triple is as the tree produced it
Fresh == op.name = "generateMerkleProof"

\* a caller replaces the chunk
TamperData(d) ==
    /\ Fresh
    /\ d # data
    /\ data' = d
    /\ op' = Op("tamper", op.a, AlteredData, 0, <<>>)
    /\ UNCHANGED <<uploadCmd, netVars, chunkVars, chunks, nodes, tree, merkleRoot, merkleProof, ret, heap, chainVars,
                   file, now, saved, mineVars>>

\* a caller replaces the root
TamperRoot(hash) ==
    /\ Fresh
    /\ hash # merkleRoot
    /\ merkleRoot' = hash
    /\ op' = Op("tamper", op.a, AlteredRoot, 0, <<>>)
    /\ UNCHANGED <<uploadCmd, netVars, chunkVars, chunks, nodes, tree, data, merkleProof, ret, heap, chainVars,
                   file, now, saved, mineVars>>

\* a caller replaces the hash of step k: tamperedProof[0].Hash = hashArray[:]
TamperStepHash(k, hash) ==
    /\ Fresh
    /\ k \in 1..Len(merkleProof)
    /\ hash # merkleProof[k].Hash
    /\ merkleProof' = [merkleProof EXCEPT ![k].Hash = hash]
    /\ op' = Op("tamper", op.a, AlteredStepHash, k, <<>>)
    /\ UNCHANGED <<uploadCmd, netVars, chunkVars, chunks, nodes, tree, data, merkleRoot, ret, heap, chainVars,
                   file, now, saved, mineVars>>

\* a caller flips the left/right flag of step k
TamperStepLeft(k) ==
    /\ Fresh
    /\ k \in 1..Len(merkleProof)
    /\ merkleProof' = [merkleProof EXCEPT ![k].Left = ~merkleProof[k].Left]
    /\ op' = Op("tamper", op.a, AlteredStepLeft, k, <<>>)
    /\ UNCHANGED <<uploadCmd, netVars, chunkVars, chunks, nodes, tree, data, merkleRoot, ret, heap, chainVars,
                   file, now, saved, mineVars>>

\* validateMerkleProof(data, merkleRoot, merkleProof) on the triple held
ValidateMerkleProof ==
    /\ Running
    /\ op.name \in {"generateMerkleProof", "tamper"}
    /\ op' = Op("validateMerkleProof", op.a, op.b, op.c, <<>>)
    /\ ret' = Ret("", 0, validateMerkleProof(data, merkleRoot, merkleProof))
    /\ UNCHANGED <<uploadCmd, netVars, chunkVars, merkleVars, heap, chainVars, file, now, saved, mineVars>>

\* chunks of the tests, "1" and "2"; a file may hold the same chunk twice
ChunkInputs == {<<Byte(49)>>, <<Byte(50)>>}

\* the chunk sequences of at most n chunks
RECURSIVE ChunkSeqs(_)
ChunkSeqs(n) ==
    IF n = 0 THEN {<<>>}
    ELSE LET shorter == ChunkSeqs(n - 1)
         IN  shorter \cup {Append(cs, c) : cs \in shorter, c \in ChunkInputs}

\* values a tampering caller writes: "6", "bad root", the digest of
\* "tampered hash", and any hash of the tree
TamperData6 == <<Byte(54)>>
BadRoot == <<Byte(98)>>
TamperedHash == Sum256(<<Byte(116)>>)
TreeHashes == {nodes[n].Hash : n \in 1..Len(nodes)}

InitMerkle ==
    /\ heap = <<>>
    /\ Blocks = <<>>
    /\ BlocksMapByHash = EmptyChainMaps
    /\ BlocksMapByMerkelRoot = EmptyChainMaps
    /\ file = NoFile
    /\ now = 1
    /\ op = Op("chunks", 0, 0, 0, <<>>)
    /\ ret = NoRet
    /\ saved = <<>>
    /\ mine = IdleMine
    /\ wk = <<>>
    /\ failure = <<>>
    /\ ctx = <<>>
    /\ chunks \in ChunkSeqs(MaxChunks)
    /\ nodes = <<>>
    /\ tree = NoTree
    /\ data = <<>>
    /\ merkleRoot = <<>>
    /\ merkleProof = <<>>
    /\ NoChunking
    /\ NoUpload
    /\ NoNetwork

NextMerkle ==
    \/ NewMerkleTree
    \/ \E chunkIndex \in 0..(MaxChunks - 1) : GenerateMerkleProof(chunkIndex)
    \/ \E d \in ChunkInputs \cup {TamperData6} : TamperData(d)
    \/ \E hash \in TreeHashes \cup {BadRoot, TamperedHash} : TamperRoot(hash)
    \/ \E k \in 1..MaxChunks : \E hash \in TreeHashes \cup {TamperedHash} :
           TamperStepHash(k, hash)
    \/ \E k \in 1..MaxChunks : TamperStepLeft(k)
    \/ ValidateMerkleProof

SpecMerkle == InitMerkle /\ [][NextMerkle]_vars

----------------------------------------------------------------------------
(* The miner alone: one call of Mine on one block *)

InitMine ==
    /\ \E block \in MineInputs : heap = <<block>>
    /\ Blocks = <<>>
    /\ BlocksMapByHash = EmptyChainMaps
    /\ BlocksMapByMerkelRoot = EmptyChainMaps
    /\ file = NoFile
    /\ now = 2
    /\ op = Op("Mine", 1, 0, 0, <<>>)
    /\ ret = NoRet
    /\ saved = <<>>
    /\ \E difficulty \in 0..HashBits, workers \in 1..MaxWorkers, retries \in 1..MaxRetries :
           mine = MineEnter(1, difficulty, workers, retries)
    /\ wk = <<>>
    /\ failure = <<>>
    /\ ctx = <<>>
    /\ NoMerkle
    /\ NoChunking
    /\ NoUpload
    /\ NoNetwork

NextMine ==
    \/ MineSpawn
    \/ \E i \in 1..MaxWorkers : MineFound(i)
    \/ MineFailure
    \/ MineRetry
    \/ MineExhausted
    \/ \E a \in 1..Len(wk) : \E i \in 1..Len(wk[a]) : WorkerCancelled(a, i)
    \/ \E a \in 1..Len(wk) : \E i \in 1..Len(wk[a]) : WorkerFound(a, i)
    \/ \E a \in 1..Len(wk) : \E i \in 1..Len(wk[a]) : WorkerExhausted(a, i)
    \/ \E a \in 1..Len(wk) : \E i \in 1..Len(wk[a]) : WorkerNext(a, i)

SpecMine == InitMine /\ [][NextMine]_vars

----------------------------------------------------------------------------
(* isValid on a block the miner worked on, as in TestBlock_isValid: mine,   *)
(* then validate, tamper, validate again                                    *)

InitValid ==
    /\ \E prevHash \in {GenesisHash, OtherHash}, index \in {1, 2} :
           heap = <<Genesis,
                    [Index |-> index, Timestamp |-> [wall |-> 1, mono |-> 1], MerkelRoot |-> RootA,
                     PrevHash |-> prevHash, Hash |-> <<>>, Nonce |-> 0]>>
    /\ Blocks = <<>>
    /\ BlocksMapByHash = EmptyChainMaps
    /\ BlocksMapByMerkelRoot = EmptyChainMaps
    /\ file = NoFile
    /\ now = 2
    /\ op = Op("Mine", 2, 0, 0, <<>>)
    /\ ret = NoRet
    /\ saved = <<>>
    /\ \E difficulty \in 0..HashBits, retries \in 1..MaxRetries :
           mine = MineEnter(2, difficulty, MaxWorkers, retries)
    /\ wk = <<>>
    /\ failure = <<>>
    /\ ctx = <<>>
    /\ NoMerkle
    /\ NoChunking
    /\ NoUpload
    /\ NoNetwork

NextValid ==
    \/ MineSpawn
    \/ \E i \in 1..MaxWorkers : MineFound(i)
    \/ MineFailure
    \/ MineRetry
    \/ MineExhausted
    \/ \E a \in 1..Len(wk) : \E i \in 1..Len(wk[a]) : WorkerCancelled(a, i)
    \/ \E a \in 1..Len(wk) : \E i \in 1..Len(wk[a]) : WorkerFound(a, i)
    \/ \E a \in 1..Len(wk) : \E i \in 1..Len(wk[a]) : WorkerExhausted(a, i)
    \/ \E a \in 1..Len(wk) : \E i \in 1..Len(wk[a]) : WorkerNext(a, i)
    \/ \E difficulty \in 0..HashBits : CallerFree /\ IsValidCall(2, 1, difficulty)
    \/ \E merkelRoot \in {RootA, Tampered} : CallerFree /\ TamperMerkelRoot(2, merkelRoot)
    \/ \E index \in {1, 2, 99} : CallerFree /\ TamperIndex(2, index)

SpecValid == InitValid /\ [][NextValid]_vars

----------------------------------------------------------------------------
(* The container alone, as the tests drive it: an empty chain with its two  *)
(* maps, blocks appended as given, looked up, validated, tampered with       *)

InitChain ==
    /\ heap = <<>>
    /\ Blocks = <<>>
    /\ BlocksMapByHash = EmptyChainMaps
    /\ BlocksMapByMerkelRoot = EmptyChainMaps
    /\ file = NoFile
    /\ now = 2
    /\ op = Op("new", 0, 0, 0, <<>>)
    /\ ret = NoRet
    /\ saved = <<>>
    /\ mine = IdleMine
    /\ wk = <<>>
    /\ failure = <<>>
    /\ ctx = <<>>
    /\ NoMerkle
    /\ NoChunking
    /\ NoUpload
    /\ NoNetwork

\* the caller allocates each block literal once
NextChain ==
    \/ \E block \in ChainInputs :
           (\A b \in 1..Len(heap) : heap[b] # block) /\ NewBlock(block)
    \/ \E merkelRoot \in {RootB} : CreateBlockCall(merkelRoot)
    \/ \E b \in 1..MaxHeap : AddBlock(b)
    \/ \E hash \in LookupHashes : GetBlockByHash(hash)
    \/ \E merkelRoot \in LookupRoots : GetBlockByMerkelRoot(merkelRoot)
    \/ ValidateChain
    \/ \E i \in 1..MaxChain : TamperPrevHash(i, Tampered)

SpecChain == InitChain /\ [][NextChain]_vars

----------------------------------------------------------------------------
(* Persistence: blocks appended, the chain written and read back *)

NextPersist ==
    \/ \E block \in ChainInputs : NewBlock(block)
    \/ \E b \in 1..MaxHeap : AddBlock(b)
    \/ WriteToFile
    \/ BlockchainFromFile

SpecPersist == InitChain /\ [][NextPersist]_vars

----------------------------------------------------------------------------
(* The ledger as the upload command uses it: a chain read from a file that  *)
(* holds the genesis block; blocks are created on the chain, mined,         *)
(* appended, and the chain is written back and read again                   *)


Init ==
    /\ heap = <<Genesis>>
    /\ Blocks = <<1>>
    /\ BlocksMapByHash = MapPut(EmptyChainMaps, EncodeToString(Genesis.Hash), 1)
    /\ BlocksMapByMerkelRoot = MapPut(EmptyChainMaps, EncodeToString(Genesis.MerkelRoot), 1)
    /\ file = MarshalBlocks(<<Genesis>>, <<1>>)
    /\ now = 1
    /\ op = Op("blockchainFromFile", 0, 0, 0, <<>>)
    /\ ret = NoRet
    /\ saved = <<Genesis>>
    /\ mine = IdleMine
    /\ wk = <<>>
    /\ failure = <<>>
    /\ ctx = <<>>
    /\ NoMerkle
    /\ NoChunking
    /\ NoUpload
    /\ NoNetwork

Next ==
    \/ \E merkelRoot \in {RootA, RootB} : CallerFree /\ CreateBlockCall(merkelRoot)
    \/ \E b \in 2..MaxHeap : \E workers \in 1..MaxWorkers, retries \in 1..MaxRetries :
           Pending(b) /\ MineCall(b, HashBits, workers, retries)
    \/ MineSpawn
    \/ \E i \in 1..MaxWorkers : MineFound(i)
    \/ MineFailure
    \/ MineRetry
    \/ MineExhausted
    \/ \E a \in 1..Len(wk) : \E i \in 1..Len(wk[a]) : WorkerCancelled(a, i)
    \/ \E a \in 1..Len(wk) : \E i \in 1..Len(wk[a]) : WorkerFound(a, i)
    \/ \E a \in 1..Len(wk) : \E i \in 1..Len(wk[a]) : WorkerExhausted(a, i)
    \/ \E a \in 1..Len(wk) : \E i \in 1..Len(wk[a]) : WorkerNext(a, i)
    \/ \E b \in 2..MaxHeap : CallerFree /\ Pending(b) /\ AddBlock(b)
    \/ CallerFree /\ WriteToFile
    \/ CallerFree /\ BlockchainFromFile

Spec == Init /\ [][Next]_vars

----------------------------------------------------------------------------
(* The miner under fair scheduling: the goroutine of the caller and every  *)
(* worker goroutine that can take a step eventually takes one              *)

SpecMineFair == InitMine /\ [][NextMine]_vars /\ WF_vars(NextMine)

----------------------------------------------------------------------------
(* calculateHash on two blocks that differ in Nonce at most *)

\* nonces: the ones the miner of this model searches, and the ends of the
\* ranges that string(rune(n)) encodes differently
NonceInputs ==
    (0..MaxInt) \cup {127, 128, 2047, 2048, 55295, 55296, 55297, 57343, 57344,
                      65535, 65536, 1114111, 1114112}

InitHash ==
    /\ \E n1 \in NonceInputs, n2 \in NonceInputs :
           heap = <<[Index |-> 0, Timestamp |-> [wall |-> 1, mono |-> 1],
                     MerkelRoot |-> RootA, PrevHash |-> <<>>, Hash |-> <<>>, Nonce |-> n1],
                    [Index |-> 0, Timestamp |-> [wall |-> 1, mono |-> 1],
                     MerkelRoot |-> RootA, PrevHash |-> <<>>, Hash |-> <<>>, Nonce |-> n2]>>
    /\ Blocks = <<>>
    /\ BlocksMapByHash = EmptyChainMaps
    /\ BlocksMapByMerkelRoot = EmptyChainMaps
    /\ file = NoFile
    /\ now = 2
    /\ op = Op("new", 2, 0, 0, <<>>)
    /\ ret = NoRet
    /\ saved = <<>>
    /\ mine = IdleMine
    /\ wk = <<>>
    /\ failure = <<>>
    /\ ctx = <<>>
    /\ NoMerkle
    /\ NoChunking
    /\ NoUpload
    /\ NoNetwork

NextHash ==
    \/ \E b \in 1..2 : Rehash(b)
    \/ \E b \in 1..2 : TamperMerkelRoot(b, Tampered)

SpecHash == InitHash /\ [][NextHash]_vars

----------------------------------------------------------------------------
(* A sealed block in further use: the block Mine has sealed is checked,    *)
(* appended, looked up, written to the file, and handed to Mine again      *)

NextSealed ==
    \/ MineSpawn
    \/ \E i \in 1..MaxWorkers : MineFound(i)
    \/ MineFailure
    \/ MineRetry
    \/ MineExhausted
    \/ \E a \in 1..Len(wk) : \E i \in 1..Len(wk[a]) : WorkerCancelled(a, i)
    \/ \E a \in 1..Len(wk) : \E i \in 1..Len(wk[a]) : WorkerFound(a, i)
    \/ \E a \in 1..Len(wk) : \E i \in 1..Len(wk[a]) : WorkerExhausted(a, i)
    \/ \E a \in 1..Len(wk) : \E i \in 1..Len(wk[a]) : WorkerNext(a, i)
    \/ \E difficulty \in 0..HashBits, workers \in 1..MaxWorkers :
           MineAgain(difficulty, workers, 1)
    \/ \E b \in 1..2 : CallerFree /\ Pending(b) /\ AddBlock(b)
    \/ CallerFree /\ IsValidCall(2, 1, mine.difficulty)
    \/ CallerFree /\ ValidateChain
    \/ CallerFree /\ GetBlockByHash(heap[2].Hash)
    \/ CallerFree /\ GetBlockByMerkelRoot(heap[2].MerkelRoot)
    \/ CallerFree /\ WriteToFile

SpecSealed == InitValid /\ [][NextSealed]_vars

----------------------------------------------------------------------------
(* Chunking alone: a file is chunked and built again from its chunks *)

\* the bytes of the files: two values, so that order shows
ContentBytes == {Byte(97), Byte(98)}

\* the byte strings of at most n bytes
RECURSIVE ByteSeqs(_)
ByteSeqs(n) ==
    IF n = 0 THEN {<<>>}
    ELSE LET shorter == ByteSeqs(n - 1)
         IN  shorter \cup {Append(bs, b) : bs \in shorter, b \in ContentBytes}

InitChunk ==
    /\ heap = <<>>
    /\ Blocks = <<>>
    /\ BlocksMapByHash = EmptyChainMaps
    /\ BlocksMapByMerkelRoot = EmptyChainMaps
    /\ file = NoFile
    /\ now = 1
    /\ op = Op("new", 0, 0, 0, <<>>)
    /\ ret = NoRet
    /\ saved = <<>>
    /\ mine = IdleMine
    /\ wk = <<>>
    /\ failure = <<>>
    /\ ctx = <<>>
    /\ NoMerkle
    /\ content \in ByteSeqs(MaxFile) \cup {NoFile}
    /\ reader = IdleReader
    /\ rebuilt = NoFile
    /\ NoUpload
    /\ NoNetwork

NextChunk ==
    \/ \E chunkSizeMB \in 1..MaxChunkSize : reader.pc = "idle" /\ ChunkFileCall(chunkSizeMB)
    \/ \E bytesRead \in 0..MaxFile : ChunkRead(bytesRead)
    \/ BuildFile

SpecChunk == InitChunk /\ [][NextChunk]_vars

----------------------------------------------------------------------------
(* The upload command up to the new block, on any file and any chain file: *)
(* chunk the file, build the tree, read the chain, create the block on it  *)

\* the chain files: none, one holding an empty array, one holding the
\* genesis block
ChainFiles == {NoFile, MarshalBlocks(<<>>, <<>>), MarshalBlocks(<<Genesis>>, <<1>>)}

InitUpload ==
    /\ heap = <<>>
    /\ Blocks = <<>>
    /\ BlocksMapByHash = EmptyChainMaps
    /\ BlocksMapByMerkelRoot = EmptyChainMaps
    /\ file \in ChainFiles
    /\ now = 1
    /\ op = Op("new", 0, 0, 0, <<>>)
    /\ ret = NoRet
    /\ saved = <<>>
    /\ mine = IdleMine
    /\ wk = <<>>
    /\ failure = <<>>
    /\ ctx = <<>>
    /\ NoMerkle
    /\ content \in ByteSeqs(MaxFile - 2)
    /\ reader = IdleReader
    /\ rebuilt = NoFile
    /\ NoUpload
    /\ NoNetwork

\* the chain was read from the file
ChainLoaded == op.name \in {"blockchainFromFile", "lastBlock"} /\ ret.err = ""

NextUpload ==
    \/ reader.pc = "idle" /\ ChunkFileCall(1)
    \/ \E bytesRead \in 0..MaxFile : ChunkRead(bytesRead)
    \/ reader.pc = "done" /\ NewMerkleTree
    \/ Running /\ tree # NoTree /\ op.name = "newMerkleTree" /\ BlockchainFromFile
    \/ Running /\ ChainLoaded /\ LastBlockCall
    \/ Running /\ ChainLoaded /\ CreateBlockCall(nodes[tree.Root].Hash)
    \/ Running /\ ChainLoaded /\ CreateBlockOnEmpty(nodes[tree.Root].Hash)

SpecUpload == InitUpload /\ [][NextUpload]_vars

----------------------------------------------------------------------------
(* uploadCmd.RunE: the upload command from its flags to the rewritten      *)
(* chain file.  RunE is sequential: its position is the call it made last  *)
(* (op) and what that call returned (ret, reader, mine).                   *)

\* the difficulty RunE passes to Mine (uint(5) of 256 bits in the code)
UploadDifficulty == HashBits

\* the chunk size RunE passes to ChunkFile (64 in the code)
UploadChunkSizeMB == 1

\* RunE, the flag checks: workers between 1 and 12 (MaxWorkers here),
\* retries between 1 and 5 (MaxRetries here), else the error is returned
RunEFlags(w, r) ==
    /\ uploadCmd.pc = "idle"
    /\ uploadCmd' =
          IF w < 1 \/ w > MaxWorkers
          THEN [pc |-> "returned", workers |-> w, retries |-> r, err |-> "invalid worker number"]
          ELSE IF r < 1 \/ r > MaxRetries
          THEN [pc |-> "returned", workers |-> w, retries |-> r, err |-> "invalid retry number"]
          ELSE [pc |-> "run", workers |-> w, retries |-> r, err |-> ""]
    /\ op' = Op("RunE", w, r, 0, <<>>)
    /\ UNCHANGED <<netVars, chunkVars, merkleVars, heap, chainVars, file, now, ret, saved, mineVars>>

\* chunks, err := core.ChunkFile(args[0], 64)
RunEChunkFile ==
    /\ uploadCmd.pc = "run"
    /\ op.name = "RunE"
    /\ ChunkFileCall(UploadChunkSizeMB)

\* merkleTree := core.NewMerkleTree(chunks), reached when err == nil
RunENewMerkleTree ==
    /\ uploadCmd.pc = "run"
    /\ op.name = "chunkFile"
    /\ reader.pc = "done"
    /\ ret.err = ""
    /\ NewMerkleTree

\* blockchain, err := core.BlockchainFromFile("../storage/blockchain.json")
RunEBlockchainFromFile ==
    /\ uploadCmd.pc = "run"
    /\ op.name = "newMerkleTree"
    /\ Running
    /\ BlockchainFromFile

\* block := core.CreateBlock(blockchain, merkleTree.Root.Hash), reached when
\* err == nil
RunECreateBlock ==
    /\ uploadCmd.pc = "run"
    /\ op.name = "blockchainFromFile"
    /\ ret.err = ""
    /\ CreateBlockCall(nodes[tree.Root].Hash)

\* the same call on a chain file that holds no block
RunECreateBlockOnEmpty ==
    /\ uploadCmd.pc = "run"
    /\ op.name = "blockchainFromFile"
    /\ ret.err = ""
    /\ CreateBlockOnEmpty(nodes[tree.Root].Hash)

\* err = block.Mine(uint(5), workers, retries)
RunEMine ==
    /\ uploadCmd.pc = "run"
    /\ op.name = "CreateBlock"
    /\ Running
    /\ MineCall(ret.block, UploadDifficulty, uploadCmd.workers, uploadCmd.retries)

\* RunEAddBlock that does not look at the error Mine returned
RunEAddBlockUnchecked ==
    /\ uploadCmd.pc = "run"
    /\ op.name = "Mine"
    /\ mine.pc \in {"ok", "err"}
    /\ AddBlock(mine.blk)

\* blockchain.AddBlock(block), reached when Mine returned nil
RunEAddBlock ==
    /\ uploadCmd.pc = "run"
    /\ op.name = "Mine"
    /\ mine.pc = "ok"
    /\ AddBlock(mine.blk)

\* err = blockchain.WriteToFile("../storage/blockchain.json")
RunEWriteToFile ==
    /\ uploadCmd.pc = "run"
    /\ op.name = "addBlock"
    /\ WriteToFile

\* RunE, the returns: the error of ChunkFile, of BlockchainFromFile or of
\* Mine, and nil after WriteToFile
RunEReturn ==
    /\ uploadCmd.pc = "run"
    /\ Running
    /\ \/ op.name = "chunkFile" /\ reader.pc = "done" /\ ret.err # ""
       \/ op.name = "blockchainFromFile" /\ ret.err # ""
       \/ op.name = "Mine" /\ mine.pc = "err"
       \/ op.name = "writeToFile"
    /\ uploadCmd' = [uploadCmd EXCEPT !.pc = "returned", !.err = ret.err]
    /\ UNCHANGED <<netVars, chunkVars, merkleVars, heap, chainVars, file, now, op, ret, saved,
                   mineVars>>

\* the files RunE is given: a missing one, an empty one, one of one chunk
\* and one of two chunks
UploadFiles ==
    {NoFile, <<>>, <<Byte(97)>>, <<Byte(97), Byte(98), Byte(97), Byte(98), Byte(97)>>}

InitRun ==
    /\ heap = <<>>
    /\ Blocks = <<>>
    /\ BlocksMapByHash = EmptyChainMaps
    /\ BlocksMapByMerkelRoot = EmptyChainMaps
    /\ file \in ChainFiles
    /\ now = 1
    /\ op = Op("new", 0, 0, 0, <<>>)
    /\ ret = NoRet
    /\ saved = <<>>
    /\ mine = IdleMine
    /\ wk = <<>>
    /\ failure = <<>>
    /\ ctx = <<>>
    /\ NoMerkle
    /\ content \in UploadFiles
    /\ NoUpload
    /\ NoNetwork
    /\ reader = IdleReader
    /\ rebuilt = NoFile

NextRun ==
    \/ \E w \in 0..MaxWorkers + 1, r \in 0..MaxRetries + 1 : RunEFlags(w, r)
    \/ RunEChunkFile
    \/ \E bytesRead \in 0..MaxFile : uploadCmd.pc = "run" /\ ChunkRead(bytesRead)
    \/ RunENewMerkleTree
    \/ RunEBlockchainFromFile
    \/ RunECreateBlock
    \/ RunECreateBlockOnEmpty
    \/ RunEMine
    \/ uploadCmd.pc = "run" /\ NextMine
    \/ RunEAddBlock
    \/ RunEWriteToFile
    \/ RunEReturn

SpecRun == InitRun /\ [][NextRun]_vars

----------------------------------------------------------------------------
(* The pipeline alone, one block at a time on a chain held in memory:      *)
(* CreateBlock, Mine, and AddBlock when Mine returned nil                  *)

\* the chains the pipeline starts from: none, and the genesis block alone
InitPipeline ==
    /\ \/ /\ heap = <<>>
          /\ Blocks = <<>>
          /\ BlocksMapByHash = EmptyChainMaps
          /\ BlocksMapByMerkelRoot = EmptyChainMaps
       \/ /\ heap = <<Genesis>>
          /\ Blocks = <<1>>
          /\ BlocksMapByHash = MapPut(EmptyChainMaps, EncodeToString(Genesis.Hash), 1)
          /\ BlocksMapByMerkelRoot =
                 MapPut(EmptyChainMaps, EncodeToString(Genesis.MerkelRoot), 1)
    /\ file = NoFile
    /\ now = 1
    /\ op = Op("new", 0, 0, 0, <<>>)
    /\ ret = NoRet
    /\ saved = <<>>
    /\ mine = IdleMine
    /\ wk = <<>>
    /\ failure = <<>>
    /\ ctx = <<>>
    /\ NoMerkle
    /\ NoChunking
    /\ NoUpload
    /\ NoNetwork

\* the caller is between two runs of the pipeline
PipelineFree ==
    \/ op.name \in {"new", "addBlock"}
    \/ op.name = "Mine" /\ mine.pc = "err"

NextPipeline ==
    \/ \E merkelRoot \in {RootA, RootB} : PipelineFree /\ CreateBlockCall(merkelRoot)
    \/ PipelineFree /\ CreateBlockOnEmpty(RootA)
    \/ \E difficulty \in 0..HashBits, workers \in 1..MaxWorkers, retries \in 1..MaxRetries :
           /\ op.name = "CreateBlock"
           /\ Running
           /\ MineCall(ret.block, difficulty, workers, retries)
    \/ NextMine
    \/ op.name = "Mine" /\ mine.pc = "ok" /\ AddBlock(mine.blk)

SpecPipeline == InitPipeline /\ [][NextPipeline]_vars

----------------------------------------------------------------------------
(* Network start-up: connectToBootstrapPeers and its connection tasks      *)

\* connectToBootstrapPeers, up to the receive loop: connected := 0,
\* attempted := 0, success := make(chan bool), one goroutine
\* connectToBootstrapPeer per bootstrap peer
ConnectToBootstrapPeers(bootstrapPeers) ==
    /\ connect.pc = "idle"
    /\ connect' = [pc |-> "wait", bootstrapPeers |-> bootstrapPeers, connected |-> 0,
                   attempted |-> 0, err |-> ""]
    /\ task' = [i \in 1..Len(bootstrapPeers) |-> [pc |-> "connect", result |-> FALSE]]
    /\ UNCHANGED <<uploadCmd, Peers, PeersMutex, chunkVars, merkleVars, heap, chainVars, file,
                   now, op, ret, saved, mineVars>>

\* connectToBootstrapPeer, err := host.Connect(ctx, *peerAddr): the
\* connection fails (the task goes to success <- false) or succeeds (the
\* task goes to PeersMutex.Lock())
TaskConnect(i, connected) ==
    /\ i \in 1..Len(task)
    /\ task[i].pc = "connect"
    /\ task' = [task EXCEPT ![i] = [pc |-> IF connected THEN "lock" ELSE "send",
                                    result |-> connected]]
    /\ UNCHANGED <<uploadCmd, Peers, PeersMutex, connect, chunkVars, merkleVars, heap,
                   chainVars, file, now, op, ret, saved, mineVars>>

\* PeersMutex.Lock(): taken when no task holds it
TaskLock(i) ==
    /\ i \in 1..Len(task)
    /\ task[i].pc = "lock"
    /\ PeersMutex = 0
    /\ PeersMutex' = i
    /\ task' = [task EXCEPT ![i].pc = "append"]
    /\ UNCHANGED <<uploadCmd, Peers, connect, chunkVars, merkleVars, heap, chainVars, file,
                   now, op, ret, saved, mineVars>>

\* Peers = append(Peers, peerAddr)
TaskAppend(i) ==
    /\ i \in 1..Len(task)
    /\ task[i].pc = "append"
    /\ Peers' = Append(Peers, connect.bootstrapPeers[i])
    /\ task' = [task EXCEPT ![i].pc = "unlock"]
    /\ UNCHANGED <<uploadCmd, PeersMutex, connect, chunkVars, merkleVars, heap, chainVars,
                   file, now, op, ret, saved, mineVars>>

\* PeersMutex.Unlock()
TaskUnlock(i) ==
    /\ i \in 1..Len(task)
    /\ task[i].pc = "unlock"
    /\ PeersMutex' = 0
    /\ task' = [task EXCEPT ![i].pc = "send"]
    /\ UNCHANGED <<uploadCmd, Peers, connect, chunkVars, merkleVars, heap, chainVars, file,
                   now, op, ret, saved, mineVars>>

\* connectToBootstrapPeers, result := <-success: the rendezvous with task i
\* blocked in its send on the unbuffered channel; connected++ on true,
\* attempted++; the task returns
ConnectReceive(i) ==
    /\ connect.pc = "wait"
    /\ connect.attempted < Len(connect.bootstrapPeers)
    /\ i \in 1..Len(task)
    /\ task[i].pc = "send"
    /\ connect' = [connect EXCEPT
                       !.connected = IF task[i].result THEN @ + 1 ELSE @,
                       !.attempted = @ + 1]
    /\ task' = [task EXCEPT ![i].pc = "done"]
    /\ UNCHANGED <<uploadCmd, Peers, PeersMutex, chunkVars, merkleVars, heap, chainVars, file,
                   now, op, ret, saved, mineVars>>

\* ConnectReturn taken after the first report
ConnectReturnFirst ==
    /\ connect.pc = "wait"
    /\ connect.attempted >= 1 \/ Len(connect.bootstrapPeers) = 0
    /\ connect' = [connect EXCEPT
                       !.pc = "returned",
                       !.err = IF connect.connected = 0
                               THEN "did not successfully connect to any bootstrap peers"
                               ELSE ""]
    /\ UNCHANGED <<uploadCmd, Peers, PeersMutex, task, chunkVars, merkleVars, heap, chainVars,
                   file, now, op, ret, saved, mineVars>>

\* connectToBootstrapPeers, after the loop: the error when connected == 0,
\* else nil
ConnectReturn ==
    /\ connect.pc = "wait"
    /\ ~(connect.attempted < Len(connect.bootstrapPeers))
    /\ connect' = [connect EXCEPT
                       !.pc = "returned",
                       !.err = IF connect.connected = 0
                               THEN "did not successfully connect to any bootstrap peers"
                               ELSE ""]
    /\ UNCHANGED <<uploadCmd, Peers, PeersMutex, task, chunkVars, merkleVars, heap, chainVars,
                   file, now, op, ret, saved, mineVars>>

\* the bootstrap peer lists handed over: peers 1..n, none to MaxPeers
PeerLists == {[i \in 1..n |-> i] : n \in 0..MaxPeers}

InitConnect ==
    /\ heap = <<>>
    /\ Blocks = <<>>
    /\ BlocksMapByHash = EmptyChainMaps
    /\ BlocksMapByMerkelRoot = EmptyChainMaps
    /\ file = NoFile
    /\ now = 1
    /\ op = Op("new", 0, 0, 0, <<>>)
    /\ ret = NoRet
    /\ saved = <<>>
    /\ mine = IdleMine
    /\ wk = <<>>
    /\ failure = <<>>
    /\ ctx = <<>>
    /\ NoMerkle
    /\ NoChunking
    /\ NoUpload
    /\ NoNetwork

NextConnect ==
    \/ \E bootstrapPeers \in PeerLists : ConnectToBootstrapPeers(bootstrapPeers)
    \/ \E i \in 1..MaxPeers : \E connected \in BOOLEAN : TaskConnect(i, connected)
    \/ \E i \in 1..MaxPeers : TaskLock(i)
    \/ \E i \in 1..MaxPeers : TaskAppend(i)
    \/ \E i \in 1..MaxPeers : TaskUnlock(i)
    \/ \E i \in 1..MaxPeers : ConnectReceive(i)
    \/ ConnectReturn

SpecConnect == InitConnect /\ [][NextConnect]_vars

\* the same under fair scheduling: a goroutine that can take a step
\* eventually takes one
SpecConnectFair == InitConnect /\ [][NextConnect]_vars /\ WF_vars(NextConnect)

----------------------------------------------------------------------------
(* Properties of the miner *)

\* C1: whenever Mine has returned nil, the integer value of block.Hash is at
\* most target(difficulty) = maxHash >> difficulty.
MiningBound ==
    mine.pc = "ok" => SetBytes(MinedBlock.Hash) <= Rsh(maxHash, mine.difficulty)

\* C1 witness: Mine returned nil with two workers and a target that rejects
\* some hashes.
MiningBoundWitness ==
    /\ mine.pc = "ok"
    /\ mine.workers >= 2
    /\ mine.difficulty >= 1
    /\ \E a \in 1..Len(wk) : \E i \in 1..Len(wk[a]) : wk[a][i].block.Nonce >= 2

\* C2: whenever Mine has returned nil, block.Hash is calculateHash() of the
\* block's final Index, Timestamp, Nonce, MerkelRoot and PrevHash, also when
\* the success came in a retry attempt after the timestamp was advanced.
SealedConsistently ==
    mine.pc = "ok" => BytesEqual(MinedBlock.Hash, calculateHash(MinedBlock))

\* C2 witness: Mine returned nil in a retry attempt, with a nonce other than
\* the one the block came with.
SealedConsistentlyWitness ==
    /\ mine.pc = "ok"
    /\ mine.attempts >= 1
    /\ MinedBlock.Nonce >= 1

----------------------------------------------------------------------------
(* Properties of Block *)

\* the four conditions of isValid
HashMatches(block) == BytesEqual(block.Hash, calculateHash(block))
LinksTo(block, prevBlock) == BytesEqual(block.PrevHash, prevBlock.Hash)
Follows(block, prevBlock) == block.Index = prevBlock.Index + 1
MeetsTarget(block, difficulty) == SetBytes(block.Hash) <= Rsh(maxHash, difficulty)

\* C3: isValid(prevBlock, difficulty) returns true if and only if the stored
\* hash is a fresh calculateHash(), PrevHash is prevBlock.Hash, Index is
\* prevBlock.Index + 1 and the hash is at most target(difficulty).
IsValidIff ==
    op.name = "isValid" =>
        (ret.bool <=> /\ HashMatches(heap[op.a])
                      /\ LinksTo(heap[op.a], heap[op.b])
                      /\ Follows(heap[op.a], heap[op.b])
                      /\ MeetsTarget(heap[op.a], op.c))

\* C3 witness: isValid returned true for a block sealed by the miner with a
\* nonce it had to search for, at a difficulty that rejects some hashes.
IsValidIffWitness ==
    /\ op.name = "isValid"
    /\ ret.bool
    /\ op.c >= 1
    /\ heap[op.a].Nonce >= 1

\* C9: CreateBlock on a chain with last block L returns a block with Index =
\* L.Index + 1, PrevHash = L.Hash, Nonce = 0, the given MerkelRoot and Hash =
\* calculateHash() of exactly these fields, and leaves the sequence, both
\* maps and the blocks that exist unchanged.
CreateBlockResult ==
    /\ [](op.name = "CreateBlock" =>
            LET block == heap[ret.block]
                L == heap[lastBlock]
            IN  /\ block.Index = L.Index + 1
                /\ block.PrevHash = L.Hash
                /\ block.Nonce = 0
                /\ block.MerkelRoot = op.bytes
                /\ block.Hash = calculateHash([Index |-> L.Index + 1,
                                               Timestamp |-> block.Timestamp,
                                               MerkelRoot |-> op.bytes,
                                               PrevHash |-> L.Hash,
                                               Hash |-> <<>>,
                                               Nonce |-> 0]))
    /\ [][(op'.name = "CreateBlock" /\ heap' # heap) =>
            /\ UNCHANGED chainVars
            /\ SubSeq(heap', 1, Len(heap)) = heap]_vars

\* C9 witness: CreateBlock returned a block built on a chain of two blocks.
CreateBlockResultWitness ==
    /\ op.name = "CreateBlock"
    /\ Len(Blocks) >= 2
    /\ ret.block = Len(heap)

----------------------------------------------------------------------------
(* Properties of Blockchain *)

\* the link of every block to its predecessor
Linked(h, blocks) ==
    \A i \in 2..Len(blocks) : h[blocks[i]].PrevHash = h[blocks[i - 1]].Hash

\* C4: chain integrity in every reachable state: for all i >= 1,
\* Blocks[i].PrevHash = Blocks[i-1].Hash and Blocks[i].Index =
\* Blocks[i-1].Index + 1.
ChainIntegrity ==
    \A i \in 2..Len(Blocks) :
        /\ heap[Blocks[i]].PrevHash = heap[Blocks[i - 1]].Hash
        /\ heap[Blocks[i]].Index = heap[Blocks[i - 1]].Index + 1

\* a caller has just overwritten the PrevHash of one block of the chain
TamperStep == op'.name = "tamperPrevHash" /\ heap' # heap

\* C5 as stated: validateChain() returns true for a chain whose every block
\* i >= 1 has PrevHash equal to the Hash of block i-1, and after the
\* PrevHash of any one block of such a chain is mutated it returns false.
ValidateChainAnyBlock ==
    /\ []((op.name = "validateChain" /\ Linked(heap, Blocks)) => ret.bool)
    /\ [][(TamperStep /\ Linked(heap, Blocks)) => ~validateChainFrom(heap', Blocks', 2)]_vars

\* C5 amended: validateChain() returns true for a chain whose every block
\* i >= 1 has PrevHash equal to the Hash of block i-1, and after the
\* PrevHash of any one block other than the first is mutated it returns
\* false.
ValidateChainLinkage ==
    /\ []((op.name = "validateChain" /\ Linked(heap, Blocks)) => ret.bool)
    /\ [][(TamperStep /\ Linked(heap, Blocks) /\ op'.a >= 2) =>
            ~validateChainFrom(heap', Blocks', 2)]_vars

\* C5 witness: validateChain() returned false on a chain of three blocks
\* whose only broken link is the tampered PrevHash of the third block.
ValidateChainLinkageWitness ==
    /\ op.name = "validateChain"
    /\ ~ret.bool
    /\ Len(Blocks) = 3
    /\ heap[Blocks[3]].PrevHash = Tampered
    /\ heap[Blocks[2]].PrevHash = heap[Blocks[1]].Hash
    /\ heap[Blocks[2]].PrevHash # Tampered

\* C6: every block of Blocks has an entry in BlocksMapByHash under the hex
\* of its Hash and in BlocksMapByMerkelRoot under the hex of its MerkelRoot,
\* and every entry of either map points to a block of Blocks whose current
\* Hash, or MerkelRoot, encodes to the entry's key.
IndexConsistent ==
    /\ \A i \in 1..Len(Blocks) :
           /\ EncodeToString(heap[Blocks[i]].Hash) \in DOMAIN BlocksMapByHash
           /\ EncodeToString(heap[Blocks[i]].MerkelRoot) \in DOMAIN BlocksMapByMerkelRoot
    /\ \A key \in DOMAIN BlocksMapByHash :
           /\ \E i \in 1..Len(Blocks) : Blocks[i] = BlocksMapByHash[key]
           /\ EncodeToString(heap[BlocksMapByHash[key]].Hash) = key
    /\ \A key \in DOMAIN BlocksMapByMerkelRoot :
           /\ \E i \in 1..Len(Blocks) : Blocks[i] = BlocksMapByMerkelRoot[key]
           /\ EncodeToString(heap[BlocksMapByMerkelRoot[key]].MerkelRoot) = key

\* C6 witness: a chain of three blocks read back from the file, two of them
\* with the same Merkle root.
IndexConsistentWitness ==
    /\ op.name = "blockchainFromFile"
    /\ ret.err = ""
    /\ Len(Blocks) = 3
    /\ \E i, j \in 1..3 : i # j /\ heap[Blocks[i]].MerkelRoot = heap[Blocks[j]].MerkelRoot
    /\ \E i, j \in 1..3 : heap[Blocks[i]].MerkelRoot # heap[Blocks[j]].MerkelRoot

\* a call of addBlock has just returned
AddStep == op'.name = "addBlock" /\ (op' # op \/ Blocks' # Blocks)

\* C7: addBlock(block) never rejects: afterwards length() is one greater,
\* lastBlock() is the block just added, and the old sequence is a prefix of
\* the new one, its blocks unchanged.
AppendOnly ==
    [][AddStep =>
        /\ length' = length + 1
        /\ lastBlock' = op'.a
        /\ SubSeq(Blocks', 1, Len(Blocks)) = Blocks
        /\ heap' = heap]_vars

\* C7 witness: addBlock appended a third block that does not link to the
\* second.
AppendOnlyWitness ==
    /\ op.name = "addBlock"
    /\ Len(Blocks) = 3
    /\ lastBlock = op.a
    /\ heap[Blocks[3]].PrevHash # heap[Blocks[2]].Hash

\* C8: getBlockByHash(h) returns a block of the chain whose Hash is h
\* whenever such a block has been appended, and otherwise an error and no
\* block; likewise getBlockByMerkelRoot; a lookup changes neither the
\* blocks, nor the sequence, nor the maps.
LookupCorrect ==
    /\ [](op.name = "getBlockByHash" =>
            IF \E i \in 1..Len(Blocks) : heap[Blocks[i]].Hash = op.bytes
            THEN /\ ret.err = ""
                 /\ \E i \in 1..Len(Blocks) : Blocks[i] = ret.block
                 /\ heap[ret.block].Hash = op.bytes
            ELSE ret.err # "" /\ ret.block = 0)
    /\ [](op.name = "getBlockByMerkelRoot" =>
            IF \E i \in 1..Len(Blocks) : heap[Blocks[i]].MerkelRoot = op.bytes
            THEN /\ ret.err = ""
                 /\ \E i \in 1..Len(Blocks) : Blocks[i] = ret.block
                 /\ heap[ret.block].MerkelRoot = op.bytes
            ELSE ret.err # "" /\ ret.block = 0)
    /\ [][op'.name \in {"getBlockByHash", "getBlockByMerkelRoot"} =>
            UNCHANGED <<heap, chainVars>>]_vars

\* C8 witness: on a chain of two or more blocks getBlockByHash found a block
\* that is not the last one, while some allocated block was never appended.
LookupCorrectWitness ==
    /\ op.name = "getBlockByHash"
    /\ ret.err = ""
    /\ Len(Blocks) >= 2
    /\ ret.block # lastBlock
    /\ \E b \in 1..Len(heap) : Pending(b)

\* C10: blockchainFromFile after writeToFile yields the same number of
\* blocks in the same order with equal fields, every loaded block found
\* under its hash and its Merkle root.
RoundTrip ==
    (op.name = "blockchainFromFile" /\ ret.err = "") =>
        /\ Len(Blocks) = Len(saved)
        /\ \A i \in 1..Len(Blocks) : heap[Blocks[i]] = saved[i]
        /\ \A i \in 1..Len(Blocks) :
               /\ getBlockByHash(heap[Blocks[i]].Hash).err = ""
               /\ getBlockByMerkelRoot(heap[Blocks[i]].MerkelRoot).err = ""

----------------------------------------------------------------------------
(* Properties of the Merkle tree *)

\* the fold of the data model, over hashes alone
EvenLevel(hs) == IF Len(hs) % 2 = 1 THEN Append(hs, hs[Len(hs)]) ELSE hs

RECURSIVE PairHashes(_)
PairHashes(hs) ==
    IF Len(hs) = 0 THEN <<>>
    ELSE <<Sum256(hs[1] \o hs[2])>> \o PairHashes(SubSeq(hs, 3, Len(hs)))

RECURSIVE FoldRoot(_)
FoldRoot(hs) == IF Len(hs) = 1 THEN hs[1] ELSE FoldRoot(PairHashes(EvenLevel(hs)))

\* the hashes of level k, the leaves being level 1, an odd level made even
RECURSIVE LevelAt(_, _)
LevelAt(hs, k) == IF k = 1 THEN EvenLevel(hs) ELSE LevelAt(PairHashes(EvenLevel(hs)), k - 1)

LeafHashes == [i \in 1..Len(chunks) |-> Sum256(chunks[i])]

RECURSIVE CeilLog2(_)
CeilLog2(n) == IF n <= 1 THEN 0 ELSE 1 + CeilLog2((n + 1) \div 2)

\* the hash validateMerkleProof holds when it reaches step k
HashBefore(k) == FoldProof(Sum256(data), SubSeq(merkleProof, 1, k - 1), 1)

\* C11: for every non-empty chunk sequence and every index i,
\* validateMerkleProof(chunks[i], tree.Root.Hash, generateMerkleProof(i))
\* returns true.
ProofComplete ==
    (op.name = "validateMerkleProof" /\ op.b = Untouched) => ret.bool

\* C11 witness: the proof of the last of five chunks, which is paired with
\* itself on two levels, validated in a file whose first two chunks are equal.
ProofCompleteWitness ==
    /\ op.name = "validateMerkleProof"
    /\ op.b = Untouched
    /\ ret.bool
    /\ Len(chunks) = 5
    /\ op.a = 4
    /\ chunks[1] = chunks[2]
    /\ chunks[4] # chunks[5]

\* C12 as stated: from a triple produced by the tree, validateMerkleProof
\* returns false if the chunk, the root, or any one proof step (its hash or
\* its flag) is altered.
ProofSound ==
    (op.name = "validateMerkleProof" /\ op.b # Untouched) => ~ret.bool

\* the altered step is a flag whose sibling hash equals the hash it is
\* combined with
TwinFlag ==
    /\ op.b = AlteredStepLeft
    /\ merkleProof[op.c].Hash = HashBefore(op.c)

\* C12 amended: validateMerkleProof returns false if the chunk, the root or
\* the hash of one proof step is altered, and if the flag of one step is
\* altered unless that step's sibling hash equals the hash it is combined
\* with; in that case it still returns true.
ProofSoundButTwin ==
    (op.name = "validateMerkleProof" /\ op.b # Untouched) =>
        (ret.bool <=> TwinFlag)

\* C12 witness: a flipped flag of a step whose sibling differs was rejected
\* in a tree of five chunks.
ProofSoundButTwinWitness ==
    /\ op.name = "validateMerkleProof"
    /\ op.b = AlteredStepLeft
    /\ ~ret.bool
    /\ Len(chunks) = 5
    /\ merkleProof[op.c].Hash # HashBefore(op.c)

\* C13: the root is the level-by-level fold of the leaf digests with an odd
\* level made even by its last node; every internal node has two children
\* and the digest of their hashes; Leaves[i] is the leaf of chunk i; the
\* roots of four and of three chunks are the stated digests.
TreeShape ==
    tree # NoTree =>
        /\ nodes[tree.Root].Hash = FoldRoot(LeafHashes)
        /\ Len(tree.Leaves) = Len(chunks)
        /\ \A i \in 1..Len(chunks) :
               /\ nodes[tree.Leaves[i]].Hash = Sum256(chunks[i])
               /\ nodes[tree.Leaves[i]].Left = 0
               /\ nodes[tree.Leaves[i]].Right = 0
        /\ \A n \in 1..Len(nodes) :
               /\ nodes[n].Left = 0 <=> nodes[n].Right = 0
               /\ nodes[n].Left # 0 =>
                      nodes[n].Hash = Sum256(nodes[nodes[n].Left].Hash
                                             \o nodes[nodes[n].Right].Hash)
               /\ nodes[n].Left = 0 => \E i \in 1..Len(chunks) : tree.Leaves[i] = n
        /\ Len(chunks) = 4 =>
               nodes[tree.Root].Hash =
                   Sum256(Sum256(LeafHashes[1] \o LeafHashes[2])
                          \o Sum256(LeafHashes[3] \o LeafHashes[4]))
        /\ Len(chunks) = 3 =>
               nodes[tree.Root].Hash =
                   Sum256(Sum256(LeafHashes[1] \o LeafHashes[2])
                          \o Sum256(LeafHashes[3] \o LeafHashes[3]))

\* C13 witness: a tree of three chunks, the third different from the first.
TreeShapeWitness ==
    /\ op.name = "newMerkleTree"
    /\ tree # NoTree
    /\ Len(chunks) = 3
    /\ chunks[1] # chunks[3]

\* C14: generateMerkleProof(i) has one step per level below the root,
\* ceil(log2 n) steps for n leaves, each with the hash of the sibling on that
\* level and whether the sibling is on the left; for one chunk the root is
\* the digest of the chunk, the proof is empty and it validates.
ProofShape ==
    op.name = "generateMerkleProof" =>
        /\ Len(merkleProof) = CeilLog2(Len(chunks))
        /\ \A k \in 1..Len(merkleProof) :
               LET p == op.a \div Pow2(k - 1)
                   sibling == IF p % 2 = 1 THEN p - 1 ELSE p + 1
               IN  /\ merkleProof[k].Left = (p % 2 = 1)
                   /\ merkleProof[k].Hash = LevelAt(LeafHashes, k)[sibling + 1]
        /\ Len(chunks) = 1 =>
               /\ merkleRoot = Sum256(chunks[1])
               /\ Len(merkleProof) = 0
               /\ validateMerkleProof(data, merkleRoot, merkleProof)

\* C14 witness: the proof of the third of five chunks, three steps long.
ProofShapeWitness ==
    /\ op.name = "generateMerkleProof"
    /\ Len(chunks) = 5
    /\ op.a = 2
    /\ Len(merkleProof) = 3

\* C20: newMerkleTree returns a tree with a root for every non-empty chunk
\* sequence, and for the empty sequence reports a failure to its caller
\* instead of returning a tree.
BuildFailsOnlyOnEmpty ==
    op.name = "newMerkleTree" =>
        IF Len(chunks) = 0
        THEN Running /\ ret.err # "" /\ tree = NoTree
        ELSE ret.err = "" /\ tree # NoTree /\ tree.Root # 0

----------------------------------------------------------------------------
(* Further properties of Block and of the miner *)

\* two blocks that differ in Nonce, and in nothing else but the stored Hash
DifferInNonceOnly(b1, b2) ==
    /\ b1.Nonce # b2.Nonce
    /\ b1.Index = b2.Index
    /\ b1.Timestamp = b2.Timestamp
    /\ b1.MerkelRoot = b2.MerkelRoot
    /\ b1.PrevHash = b2.PrevHash

\* C15: calculateHash() gives the same digest for the same field values, and
\* different digests for two blocks that differ only in Nonce, for every
\* pair of distinct nonces of the range the miner searches.
NonceChangesHash ==
    \A b1 \in 1..Len(heap), b2 \in 1..Len(heap) :
        /\ (HashMatches(heap[b1]) /\ HashMatches(heap[b2])
            /\ DifferInNonceOnly(heap[b1], heap[b2]))
           => heap[b1].Hash # heap[b2].Hash
        /\ (HashMatches(heap[b1]) /\ HashMatches(heap[b2])
            /\ [heap[b1] EXCEPT !.Hash = <<>>] = [heap[b2] EXCEPT !.Hash = <<>>])
           => heap[b1].Hash = heap[b2].Hash

\* every worker of attempt a has run to its last nonce and reported
\* exhaustion, and Mine has taken every report
AllExhausted(a) ==
    /\ failure[a] = 0
    /\ \A i \in 1..Len(wk[a]) :
           /\ wk[a][i].pc = "done"
           /\ wk[a][i].result = NoResult
           /\ wk[a][i].block.Nonce > MaxInt - wk[a][i].nonceIncrement

\* C16: Mine returns the error only after exactly `retries` attempts, each
\* ended by every one of the `workers` workers reporting exhaustion; an
\* attempt is given up only when all its workers have reported; there are
\* never more than `retries` attempts.
ErrorOnlyAfterRetries ==
    /\ [](mine.pc # "idle" => (mine.attempts <= mine.retries /\ Len(wk) <= mine.retries))
    /\ [](mine.pc = "err" =>
            /\ mine.attempts = mine.retries
            /\ Len(wk) = mine.retries
            /\ \A a \in 1..Len(wk) : Len(wk[a]) = mine.workers /\ AllExhausted(a))
    /\ [][mine'.attempts = mine.attempts + 1 =>
            /\ mine.failed = mine.workers
            /\ ~ctx[Attempt]
            /\ \A i \in 1..mine.workers : wk[Attempt][i].pc = "done"]_vars

\* C16 witness: the error after two attempts of two workers each.
ErrorOnlyAfterRetriesWitness ==
    /\ mine.pc = "err"
    /\ mine.retries = 2
    /\ mine.workers = 2
    /\ Len(wk) = 2

\* C17: when Mine returns the error, Hash and Nonce of the block are what
\* they were before the call: no step of a call that does not end in
\* success writes them, and no worker result was delivered.
UnsealedOnError ==
    /\ [][(mine.pc \in {"loop", "wait"} /\ mine'.pc # "ok") =>
            /\ heap'[mine.blk].Hash = heap[mine.blk].Hash
            /\ heap'[mine.blk].Nonce = heap[mine.blk].Nonce]_vars
    /\ [](mine.pc = "err" =>
            /\ MinedBlock.Hash \in {block.Hash : block \in MineInputs}
            /\ MinedBlock.Nonce \in {block.Nonce : block \in MineInputs}
            /\ \A a \in 1..Len(wk) : \A i \in 1..Len(wk[a]) : wk[a][i].pc # "send")

\* C17 witness: the error returned after a retry moved the timestamp.
UnsealedOnErrorWitness ==
    /\ mine.pc = "err"
    /\ ret.err # ""
    /\ mine.attempts >= 2
    /\ MinedBlock.Timestamp = [wall |-> 3, mono |-> 3]

\* C18: under fair scheduling every call of Mine with workers >= 1 and
\* retries >= 1 eventually returns, with success or with the error.
MineTerminates == <>(mine.pc \in {"ok", "err"})

\* C18 witness: Mine returned success in the last attempt it was allowed,
\* with two workers.
MineTerminatesWitness ==
    /\ mine.pc = "ok"
    /\ mine.workers >= 2
    /\ mine.retries >= 2
    /\ Len(wk) = mine.retries

\* C19: once Mine has returned success for a block, no later operation
\* (addBlock, isValid, validateChain, lookups, writeToFile, a further Mine
\* call on the block) changes a field of the block.
SealedImmutable ==
    /\ [][(mine.pc = "ok" /\ mine'.pc = "ok") => heap'[mine.blk] = heap[mine.blk]]_vars
    /\ [](op.name = "MineAgain" =>
            /\ heap[op.a].Nonce = op.b
            /\ heap[op.a].Hash = op.bytes)

----------------------------------------------------------------------------
(* Properties of the ledger as a whole *)

\* C21: no input reachable through the public operations ends the process:
\* a file without chunks, a chain file holding an empty array, lastBlock and
\* CreateBlock on a chain without blocks all come back to the caller as an
\* error value or a boolean, never as a panic.
NeverCrashes == ret.err \notin {PanicIndex, PanicMakeslice}

\* the d most significant of the HashBits bits of h are all zero
LeadingZeroBits(h, d) == h \div Pow2(HashBits - d) = 0

\* the nonces worker w has tested and rejected: from its start nonce in
\* steps of nonceIncrement up to, not including, the one it holds
Rejected(w, i) ==
    {n \in 0..MaxInt : n < w.block.Nonce /\ n >= i - 1 /\ (n - (i - 1)) % w.nonceIncrement = 0}

----------------------------------------------------------------------------
(* Properties of the chunker *)

\* the largest int64
MaxInt64 == Pow2(IntBits - 1) - 1

\* what chunkFile returned, and what buildFile made of it: non-empty chunks
\* of at most chunkSizeMB megabytes that make up the file in order, and a
\* built file equal to the file that was chunked
ChunksWellFormed ==
    (op.name \in {"chunkFile", "buildFile"} /\ reader.pc = "done" /\ ret.err = "") =>
        /\ \A k \in 1..Len(chunks) :
               Len(chunks[k]) >= 1 /\ Len(chunks[k]) <= op.a * MB
        /\ Flatten(chunks) = content
        /\ op.name = "buildFile" => rebuilt = content

----------------------------------------------------------------------------
(* Properties of the miner's workers *)

\* C24: after Mine has returned success, every worker of that attempt
\* eventually terminates, whatever the interleaving, also when two workers
\* find a valid nonce at about the same time.
WorkersUnwind ==
    (mine.pc = "ok") ~>
        (\A a \in 1..Len(wk) : \A i \in 1..Len(wk[a]) : wk[a][i].pc = "done")

\* the workers whose result Mine has received
Delivered ==
    {ai \in {<<a, i>> : a \in 1..Len(wk), i \in 1..MaxWorkers} :
        /\ ai[2] <= Len(wk[ai[1]])
        /\ wk[ai[1]][ai[2]].pc = "done"
        /\ wk[ai[1]][ai[2]].result # NoResult}

\* C25: Mine takes at most one worker result, the first delivered;
\* block.Hash and block.Nonce are both those of that one result, and no
\* later result overwrites them.
OneResultAccepted ==
    /\ [](Cardinality(Delivered) = IF mine.pc = "ok" THEN 1 ELSE 0)
    /\ [](mine.pc = "ok" =>
            \A ai \in Delivered :
                /\ ai[1] = Attempt
                /\ MinedBlock.Hash = wk[ai[1]][ai[2]].result.Hash
                /\ MinedBlock.Nonce = wk[ai[1]][ai[2]].result.Nonce)
    /\ [][mine.pc = "ok" => (heap' = heap /\ mine' = mine)]_vars

\* C25 witness: Mine returned with the result of one worker while another
\* worker holds a different result that was never taken.
OneResultAcceptedWitness ==
    /\ mine.pc = "ok"
    /\ \E i \in 1..Len(wk[Attempt]) :
           /\ wk[Attempt][i].pc = "send"
           /\ wk[Attempt][i].result.Nonce # MinedBlock.Nonce

\* the workers whose record a step changes
Stepped ==
    {ai \in {<<a, i>> : a \in 1..Len(wk), i \in 1..MaxWorkers} :
        /\ ai[2] <= Len(wk[ai[1]])
        /\ wk'[ai[1]][ai[2]] # wk[ai[1]][ai[2]]}

\* C26: a step of a worker (a step that is not one of Mine's task) writes
\* that worker's own copy of the block and nothing else: not the caller's
\* block, not another worker's copy; the caller's block is written by
\* Mine's task only.
WorkersOwnCopies ==
    /\ [][mine' = mine =>
            /\ heap' = heap
            /\ Len(wk') = Len(wk)
            /\ Cardinality(Stepped) <= 1]_vars
    /\ [][heap' # heap => mine' # mine]_vars
    /\ [][(mine' # mine /\ Len(wk') = Len(wk)) =>
            \A ai \in Stepped : wk'[ai[1]][ai[2]].block = wk[ai[1]][ai[2]].block]_vars

\* C26 witness: two workers of one attempt have each moved their own nonce
\* while the caller's block still has the nonce it came with.
WorkersOwnCopiesWitness ==
    /\ mine.pc = "wait"
    /\ Len(wk[Attempt]) = 2
    /\ wk[Attempt][1].block.Nonce = 2
    /\ wk[Attempt][2].block.Nonce = 3
    /\ MinedBlock.Nonce = 0

\* C27: in an attempt with workerCount workers, worker i starts at nonce i
\* and moves on by workerCount at a time, so every nonce it tests is
\* congruent to i modulo workerCount, in increasing order, and no two
\* workers of the attempt ever test the same nonce.
NoncePartition ==
    /\ [](\A a \in 1..Len(wk) : \A i \in 1..Len(wk[a]) :
            LET w == wk[a][i]
            IN  /\ Len(wk[a]) = mine.workers
                /\ w.nonceIncrement = mine.workers
                /\ w.block.Nonce >= i - 1
                /\ w.block.Nonce % mine.workers = i - 1
                /\ w.result # NoResult => w.result.Nonce = w.block.Nonce
                /\ \A j \in 1..Len(wk[a]) :
                       j # i => (Rejected(w, i) \cup {w.block.Nonce})
                                    \cap (Rejected(wk[a][j], j) \cup {wk[a][j].block.Nonce}) = {})
    /\ [][/\ Len(wk') >= Len(wk)
          /\ \A a \in 1..Len(wk') : \A i \in 1..Len(wk'[a]) :
                 IF a <= Len(wk)
                 THEN wk'[a][i].block.Nonce
                          \in {wk[a][i].block.Nonce, wk[a][i].block.Nonce + mine.workers}
                 ELSE wk'[a][i].block.Nonce = i - 1]_vars

\* C27 witness: of two workers, worker 0 has moved on to nonce 2 and
\* worker 1 has found nonce 3.
NoncePartitionWitness ==
    /\ mine.pc = "wait"
    /\ Len(wk[Attempt]) = 2
    /\ wk[Attempt][1].block.Nonce = 2
    /\ wk[Attempt][2].pc = "send"
    /\ wk[Attempt][2].result.Nonce = 3

\* worker w has tested its last nonce: the next increment would pass MaxInt
AtLastNonce(w) == w.block.Nonce > MaxInt - w.nonceIncrement

\* the workers of attempt a that have stopped without a result
Stopped(a) ==
    {i \in 1..Len(wk[a]) : wk[a][i].pc = "done" /\ wk[a][i].result = NoResult}

\* C28: a worker's nonce stays in 0..MaxInt; a worker whose next increment
\* would pass MaxInt reports exhaustion on the failure channel, once, and
\* stops without testing a further nonce; the channel always has room for
\* the report.
NonceInRange ==
    /\ [](\A a \in 1..Len(wk) : \A i \in 1..Len(wk[a]) :
            LET w == wk[a][i]
            IN  /\ w.block.Nonce \in 0..MaxInt
                /\ (w.pc = "run" /\ AtLastNonce(w)) => failure[a] < Len(wk[a])
                /\ (w.pc = "done" /\ w.result = NoResult /\ ~ctx[a]) => AtLastNonce(w))
    /\ [](\A a \in 1..Len(wk) : failure[a] <= Len(wk[a]))
    /\ [](mine.pc = "wait" =>
            failure[Attempt] + mine.failed = Cardinality(Stopped(Attempt)))
    /\ [][\A a \in 1..Len(wk) : \A i \in 1..Len(wk[a]) :
            wk[a][i].pc = "done" => wk'[a][i] = wk[a][i]]_vars

\* C28 witness: both workers of an attempt have reported exhaustion before
\* Mine has taken either report.
NonceInRangeWitness ==
    /\ mine.pc = "wait"
    /\ mine.failed = 0
    /\ failure[Attempt] = 2

\* C29: the workers of an attempt are started only after every worker of
\* the attempt before has reported exhaustion; workers of two attempts
\* never search at the same time, and a result Mine accepts comes from a
\* worker of the current attempt.
AttemptsSequential ==
    /\ [](\A a \in 1..(Len(wk) - 1) : AllExhausted(a) /\ ctx[a])
    /\ [][Len(wk') # Len(wk) =>
            /\ Len(wk') = Len(wk) + 1
            /\ \A a \in 1..Len(wk) : \A i \in 1..Len(wk[a]) :
                   wk[a][i].pc = "done" /\ wk[a][i].result = NoResult]_vars
    /\ [][(mine.pc = "wait" /\ mine'.pc = "ok") =>
            \E i \in 1..Len(wk[Attempt]) :
                /\ wk[Attempt][i].pc = "send"
                /\ wk'[Attempt][i].pc = "done"
                /\ heap'[mine.blk].Hash = wk[Attempt][i].result.Hash
                /\ heap'[mine.blk].Nonce = wk[Attempt][i].result.Nonce
                /\ heap'[mine.blk].Timestamp = wk[Attempt][i].block.Timestamp]_vars

\* C29 witness: the two workers of a second attempt are searching, one of
\* them past its first nonce.
AttemptsSequentialWitness ==
    /\ mine.pc = "wait"
    /\ Len(wk) = 2
    /\ Len(wk[2]) = 2
    /\ wk[2][1].pc = "run"
    /\ wk[2][2].pc = "run"
    /\ wk[2][2].block.Nonce = 3

\* C30: Mine never writes Index, MerkelRoot or PrevHash; it writes
\* Timestamp only at the end of an attempt in which every worker reported
\* exhaustion, setting it to the current time; in the attempt that ends
\* with a result it writes Hash and Nonce only.
MineWritesOnly ==
    /\ [][/\ heap'[mine.blk].Index = MinedBlock.Index
          /\ heap'[mine.blk].MerkelRoot = MinedBlock.MerkelRoot
          /\ heap'[mine.blk].PrevHash = MinedBlock.PrevHash]_vars
    /\ [][heap'[mine.blk].Timestamp # MinedBlock.Timestamp =>
            /\ mine.pc = "wait"
            /\ mine.failed = mine.workers
            /\ \A i \in 1..Len(wk[Attempt]) :
                   wk[Attempt][i].pc = "done" /\ wk[Attempt][i].result = NoResult
            /\ mine'.attempts = mine.attempts + 1
            /\ heap'[mine.blk].Timestamp = TimeNow
            /\ heap'[mine.blk].Hash = MinedBlock.Hash
            /\ heap'[mine.blk].Nonce = MinedBlock.Nonce]_vars
    /\ [][(heap'[mine.blk].Hash # MinedBlock.Hash \/ heap'[mine.blk].Nonce # MinedBlock.Nonce) =>
            /\ mine.pc = "wait"
            /\ mine'.pc = "ok"
            /\ heap'[mine.blk].Timestamp = MinedBlock.Timestamp]_vars

\* C30 witness: Mine returned success in its second attempt: the block has
\* the timestamp the retry gave it and the nonce of the result.
MineWritesOnlyWitness ==
    /\ mine.pc = "ok"
    /\ mine.attempts = 1
    /\ MinedBlock.Timestamp = [wall |-> 2, mono |-> 2]
    /\ MinedBlock.Hash # <<>>

----------------------------------------------------------------------------
(* Properties of the upload command *)

\* the calls of RunE in the order of its text
StepOrder ==
    {<<"new", "RunE">>, <<"RunE", "chunkFile">>, <<"chunkFile", "newMerkleTree">>,
     <<"newMerkleTree", "blockchainFromFile">>, <<"blockchainFromFile", "CreateBlock">>,
     <<"CreateBlock", "Mine">>, <<"Mine", "addBlock">>, <<"addBlock", "writeToFile">>}

\* the chain in memory is the one BlockchainFromFile read, or none was read
ChainAsLoaded ==
    \/ Blocks = <<>>
    \/ /\ file # NoFile
       /\ Blocks = [i \in 1..Len(file) |-> i]
       /\ \A i \in 1..Len(file) : heap[i] = UnmarshalBlock(file[i])

\* C31: in the upload command the calls follow one another in the order
\* chunk, build tree, load chain, create block, mine, append, persist; the
\* chain in memory grows only by the block Mine has just returned nil for,
\* the chain file is rewritten only after that append; when the command
\* returns an error (flags, chunking, loading, mining) no block was appended
\* and the file was never written.
UploadOrder ==
    /\ [][op'.name # op.name => <<op.name, op'.name>> \in StepOrder]_vars
    /\ [][Blocks' # Blocks =>
            \/ op'.name = "blockchainFromFile"
            \/ /\ op.name = "Mine"
               /\ mine.pc = "ok"
               /\ Blocks' = Append(Blocks, mine.blk)]_vars
    /\ [][file' # file =>
            /\ op.name = "addBlock"
            /\ mine.pc = "ok"
            /\ Blocks # <<>>
            /\ Blocks[Len(Blocks)] = mine.blk
            /\ file' = MarshalBlocks(heap, Blocks)]_vars
    /\ []((uploadCmd.pc = "returned" /\ uploadCmd.err # "") =>
            /\ op.name \in {"RunE", "chunkFile", "blockchainFromFile", "Mine"}
            /\ saved = <<>>
            /\ file \in ChainFiles
            /\ ChainAsLoaded)
    /\ []((uploadCmd.pc = "returned" /\ uploadCmd.err = "") =>
            /\ op.name = "writeToFile"
            /\ mine.pc = "ok"
            /\ file = MarshalBlocks(heap, Blocks))

\* C31 witness: the command returned nil after it appended the block it
\* mined to the chain of the file and wrote the two blocks back.
UploadOrderWitness ==
    /\ uploadCmd.pc = "returned"
    /\ uploadCmd.err = ""
    /\ Len(file) = 2
    /\ Blocks[2] = mine.blk

\* C32: on a chain grown by the pipeline CreateBlock, Mine returning nil,
\* AddBlock, one block at a time, every append adds the block just mined
\* and that block satisfies isValid against the last block of the chain
\* with the difficulty it was mined at; the chain is linked by PrevHash and
\* Index + 1 after every append.
PipelineKeepsValid ==
    /\ [][Blocks' # Blocks =>
            /\ Len(Blocks) >= 1
            /\ Blocks' = Append(Blocks, mine.blk)
            /\ isValid(heap[mine.blk], heap[lastBlock], mine.difficulty)]_vars
    /\ [](\A i \in 2..Len(Blocks) :
             /\ BytesEqual(heap[Blocks[i]].PrevHash, heap[Blocks[i - 1]].Hash)
             /\ heap[Blocks[i]].Index = heap[Blocks[i - 1]].Index + 1)

\* C32 witness: two blocks were mined and appended after the genesis block,
\* the second one in a retry attempt at a difficulty above zero.
PipelineKeepsValidWitness ==
    /\ op.name = "addBlock"
    /\ Len(Blocks) = 3
    /\ mine.attempts >= 1
    /\ mine.difficulty >= 1

\* C33 as stated: validateChain() returning true implies that for every
\* i >= 1 both Blocks[i].PrevHash = Blocks[i-1].Hash and Blocks[i].Index =
\* Blocks[i-1].Index + 1.
ValidateChainFullIntegrity ==
    (op.name = "validateChain" /\ ret.bool) =>
        \A i \in 2..Len(Blocks) :
            /\ BytesEqual(heap[Blocks[i]].PrevHash, heap[Blocks[i - 1]].Hash)
            /\ heap[Blocks[i]].Index = heap[Blocks[i - 1]].Index + 1

\* C33 amended: validateChain() returning true implies that for every
\* i >= 1 Blocks[i].PrevHash = Blocks[i-1].Hash; the indices are not looked
\* at.
ValidateChainOnlyLinks ==
    (op.name = "validateChain" /\ ret.bool) =>
        \A i \in 2..Len(Blocks) :
            BytesEqual(heap[Blocks[i]].PrevHash, heap[Blocks[i - 1]].Hash)

\* C33 witness: validateChain returned true for a chain of two linked blocks
\* whose indices do not follow one another.
ValidateChainOnlyLinksWitness ==
    /\ op.name = "validateChain"
    /\ ret.bool
    /\ Len(Blocks) >= 2
    /\ \E i \in 2..Len(Blocks) : heap[Blocks[i]].Index # heap[Blocks[i - 1]].Index + 1

\* C34: a block created by CreateBlock and sealed by Mine reads back from
\* the chain file exactly as it was written: the reloaded block equals the
\* mined one, calculateHash() of the reloaded block equals its stored Hash,
\* and isValid against its predecessor answers after the reload what it
\* answered before the write.
SealedSurvivesReload ==
    (op.name = "blockchainFromFile" /\ ret.err = "") =>
        \A i \in 2..Len(Blocks) :
            BytesEqual(saved[i].Hash, calculateHash(saved[i])) =>
                /\ heap[Blocks[i]] = saved[i]
                /\ BytesEqual(heap[Blocks[i]].Hash, calculateHash(heap[Blocks[i]]))
                /\ isValid(heap[Blocks[i]], heap[Blocks[i - 1]], HashBits)
                       = isValid(saved[i], saved[i - 1], HashBits)

\* the position of the block appended last among those with the Hash, or
\* the MerkelRoot, of the block at position i
LastWithHash(i) ==
    CHOOSE j \in i..Len(Blocks) :
        /\ heap[Blocks[j]].Hash = heap[Blocks[i]].Hash
        /\ \A k \in (j + 1)..Len(Blocks) : heap[Blocks[k]].Hash # heap[Blocks[i]].Hash

LastWithRoot(i) ==
    CHOOSE j \in i..Len(Blocks) :
        /\ heap[Blocks[j]].MerkelRoot = heap[Blocks[i]].MerkelRoot
        /\ \A k \in (j + 1)..Len(Blocks) :
               heap[Blocks[k]].MerkelRoot # heap[Blocks[i]].MerkelRoot

\* C35: for every block of the chain, getBlockByHash of its Hash and
\* getBlockByMerkelRoot of its MerkelRoot return the block appended last
\* among the blocks with that Hash, or that MerkelRoot (one entry per key),
\* after appends and after the chain is read back from its file; an append
\* keeps every block the sequence had.
LastAppendedWins ==
    /\ [](\A i \in 1..Len(Blocks) :
             /\ getBlockByHash(heap[Blocks[i]].Hash) = Ret("", Blocks[LastWithHash(i)], FALSE)
             /\ getBlockByMerkelRoot(heap[Blocks[i]].MerkelRoot)
                    = Ret("", Blocks[LastWithRoot(i)], FALSE))
    /\ [][op'.name = "addBlock" => SubSeq(Blocks', 1, Len(Blocks)) = Blocks]_vars

\* C35 witness: three different blocks were appended, two of them with the
\* same Merkle root and two of them with the same hash; the lookups give the
\* later block of each pair.
LastAppendedWinsWitness ==
    /\ op.name = "addBlock"
    /\ Len(Blocks) = 3
    /\ \E i, j \in 1..3 :
           /\ i < j
           /\ Blocks[i] # Blocks[j]
           /\ heap[Blocks[i]].MerkelRoot = heap[Blocks[j]].MerkelRoot
           /\ getBlockByMerkelRoot(heap[Blocks[i]].MerkelRoot).block = Blocks[j]
    /\ \E i, j \in 1..3 :
           /\ i < j
           /\ Blocks[i] # Blocks[j]
           /\ heap[Blocks[i]].Hash = heap[Blocks[j]].Hash
           /\ getBlockByHash(heap[Blocks[i]].Hash).block = Blocks[j]

\* the root hash of the tree newMerkleTree builds from a non-empty sequence
RootHashOf(fileChunks) ==
    LET built == newMerkleTree(fileChunks)
    IN  built.nodes[built.tree.Root].Hash

\* C36: the root hash of the tree built from a non-empty chunk sequence
\* differs from the root hash of the tree of every other non-empty chunk
\* sequence, of the same length or not.
RootCommitsToSequence ==
    (op.name = "newMerkleTree" /\ tree # NoTree) =>
        \A other \in ChunkSeqs(MaxChunks) :
            (other # <<>> /\ other # chunks) =>
                ~BytesEqual(RootHashOf(other), nodes[tree.Root].Hash)

----------------------------------------------------------------------------
(* Properties of the network start-up *)

\* the tasks that have reported, and those whose connection succeeded
Reported == {i \in 1..Len(task) : task[i].pc = "done"}
Succeeded == {i \in 1..Len(task) : task[i].result}

\* the successful tasks that are past their append to Peers
Appended == {i \in Succeeded : task[i].pc \in {"unlock", "send", "done"}}

\* C37: connectToBootstrapPeers starts one task per bootstrap peer; each
\* task reports once and the reports counted are those of the finished
\* tasks; it returns only after every task has reported, with an error
\* exactly when no connection succeeded; Peers changes only by an append of
\* the task that holds PeersMutex and holds one entry per successful
\* connection; and once started the call returns with every task finished.
ConnectReportsAll ==
    /\ [](connect.pc # "idle" =>
            /\ Len(task) = Len(connect.bootstrapPeers)
            /\ connect.attempted = Cardinality(Reported)
            /\ connect.connected = Cardinality(Reported \cap Succeeded)
            /\ Len(Peers) = Cardinality(Appended)
            /\ \A i \in Appended : \E k \in 1..Len(Peers) : Peers[k] = connect.bootstrapPeers[i])
    /\ [](connect.pc = "returned" =>
            /\ Reported = 1..Len(connect.bootstrapPeers)
            /\ (connect.err # "") <=> (Succeeded = {})
            /\ Len(Peers) = Cardinality(Succeeded))
    /\ [][\A i \in 1..Len(task) : task[i].pc = "done" => task'[i] = task[i]]_vars
    /\ [][Peers' # Peers =>
            /\ PeersMutex \in 1..Len(task)
            /\ task[PeersMutex].pc = "append"
            /\ Peers' = Append(Peers, connect.bootstrapPeers[PeersMutex])]_vars
    /\ (connect.pc = "wait") ~> (connect.pc = "returned" /\ Reported = 1..Len(task))

\* C37 witness: the call returned nil for three bootstrap peers of which two
\* were connected and one was not.
ConnectReportsAllWitness ==
    /\ connect.pc = "returned"
    /\ connect.err = ""
    /\ Len(task) = 3
    /\ Cardinality(Succeeded) = 2
    /\ Len(Peers) = 2

====
